---- MODULE Spec2Model ----
(***************************************************************************)
(* ISO 11783 / J1939 CAN stack: the network manager (address table,        *)
(* inactive list, partner binding, address-claim reception) and the        *)
(* hardware interface (channel table, RX/TX queues, update, tick and RX    *)
(* threads).                                                               *)
(*                                                                         *)
(* A NAME is kept as its 8-byte little-endian address-claim payload        *)
(* <<byte0, ..., byte7>>: the 64-bit value does not fit the model          *)
(* checker's integers, so equality of full NAMEs is equality of the byte   *)
(* tuples and the numeric order is the order of the tuples read from       *)
(* byte 7 down to byte 0.                                                  *)
(***************************************************************************)
EXTENDS Integers, Sequences, FiniteSets, TLC

\* ------------------------------------------------------------------ bounds
\* Frames the bus delivers to the network managers in one run.
MaxFrames == 3

\* ------------------------------------------------------- program constants
NULL_CAN_ADDRESS == 254
BROADCAST_CAN_ADDRESS == 255
CAN_DATA_LENGTH == 8
AddressClaim == 60928
STANDARD_ID_11_BIT_SIZE == 2047
FunctionCodeByte == 6

\* ------------------------------------------------------------- identities
Networks == {1, 2}
NoCF == 0
InternalIds == {1, 2}
PartnerIds == {11}
ExternalIds == 21 .. (20 + MaxFrames + (2 * Cardinality(PartnerIds)))
CFIds == InternalIds \cup PartnerIds \cup ExternalIds
\* The slots of the address table the model keeps.  The code stores a CF only
\* at an address a frame or an address claim carries, so every other slot of
\* 0..253 stays empty in every run; loops over the table visit the kept slots
\* in the same increasing order.
TableIndex == {a \in 0 .. (NULL_CAN_ADDRESS - 1) : a \in {28, 29, 38, 39, 128, 129}}

Min(S) == CHOOSE x \in S : \A y \in S : x <= y

\* NAMEs on the bus: two virtual terminals (function 29) and one other device.
NameVT1 == <<1, 0, 0, 0, 0, 29, 0, 0>>
NameVT2 == <<2, 0, 0, 0, 0, 29, 0, 0>>
NameOther == <<3, 0, 0, 0, 0, 130, 0, 0>>
ZeroName == <<0, 0, 0, 0, 0, 0, 0, 0>>
BusNames == {NameVT1, NameVT2, NameOther}
\* Source addresses the external devices claim.
BusAddresses == {38, 39}
\* The network whose bus carries the external devices.
BusNetworks == {1}

\* The NAME filter set of each partner: (byte of the NAME, value) pairs.
PartnerFilters == [p \in PartnerIds |-> {<<FunctionCodeByte, 29>>}]
PartnerNetwork == [p \in PartnerIds |-> 1]

BlankCF == [type |-> "None", NAME |-> ZeroName, address |-> NULL_CAN_ADDRESS, network |-> 0]

VARIABLES
    controlFunctionTable,          \* [network -> [0..253 -> CF or NoCF]]
    inactiveControlFunctions,      \* [network -> sequence of CFs]
    controlFunctions,              \* [CF -> type, NAME, address, network]
    partneredControlFunctionList,  \* static list of partners (NoCF = nullptr)
    partnerInitialized,            \* [partner -> BOOLEAN]
    anyPartnerNeedsInitializing,   \* static flag
    receiveMessageList,            \* [network -> sequence of messages]
    initialized,                   \* [network -> BOOLEAN]
    stateMachine,                  \* [Internal CF -> address claim state machine]
    nmCrashed,                     \* the process died in undefined behaviour
    framesReceived,                \* count of frames delivered so far
    lastClaim,                     \* [network -> last address claim received]
    updatedSinceFrame,             \* [network -> update() ran after lastClaim]
    busClaims,                     \* [network -> [address -> NAME holding it on the bus]]
    namesSeen,                     \* [network -> NAMEs that have claimed on its bus]
    partnerUpdated,                \* [partner -> its network ran update() since create]
    globalParameterGroupNumberCallbacks,              \* PGNs of the global callbacks, in order
    anyControlFunctionParameterGroupNumberCallbacks,  \* PGNs of the any-CF callbacks, in order
    parameterGroupNumberCallbacks, \* [partner -> PGNs of its callbacks, in order]
    currentFrame,                  \* number of the frame stage 1 is handing over
    lastSend,                      \* the last send_can_message call and what it did
    constructedFrame,              \* the last construct_frame call and the identifier it built
    busloadMessageBitsHistory,     \* std::deque of the bit counts of the past periods
    currentBusloadBitAccumulator,  \* bits counted since the history was last updated
    busloadUpdateTimestamp_ms,     \* when the history was last updated
    timestamp_ms,                  \* SystemTiming::get_timestamp_ms()
    eventLog,                      \* events and callbacks invoked so far, in order
    protocolPGNCallbacks,          \* PGNs of the protocol callbacks, in order
    registryMutex,                 \* [mutex of a registry -> "free" or the thread holding it]
    updateCall,                    \* position of the thread inside update(), followed step by step
    tableIndexesOutOfRange,        \* indexes past its end the address table was accessed with
    emptiedSlotsDereferenced       \* (network, slot) pairs dereferenced while holding nullptr

nmVars == <<controlFunctionTable, inactiveControlFunctions, controlFunctions,
            partneredControlFunctionList, partnerInitialized,
            anyPartnerNeedsInitializing, receiveMessageList, initialized, stateMachine,
            nmCrashed, framesReceived, lastClaim, updatedSinceFrame,
            busClaims, namesSeen, partnerUpdated, globalParameterGroupNumberCallbacks,
            anyControlFunctionParameterGroupNumberCallbacks, parameterGroupNumberCallbacks,
            currentFrame, lastSend, constructedFrame, eventLog, busloadMessageBitsHistory,
            currentBusloadBitAccumulator, busloadUpdateTimestamp_ms, timestamp_ms,
            protocolPGNCallbacks, registryMutex, updateCall, tableIndexesOutOfRange,
            emptiedSlotsDereferenced>>

busloadVars == <<busloadMessageBitsHistory, currentBusloadBitAccumulator,
                 busloadUpdateTimestamp_ms, timestamp_ms>>

registryVars == <<protocolPGNCallbacks, registryMutex, updateCall>>

VARIABLES
    threadsStarted,                \* atomic_bool
    hardwareChannels,              \* [network -> channel record or NoChannel]
    updateThread,                  \* position of the update thread
    wakeupThread,                  \* position of the periodic (tick) thread
    stackNeedsUpdate,              \* set by the tick thread, consumed by stage 2
    hardwareChannelsMutex,         \* "free" or the thread blocked while holding it
    driverValid,                   \* [network -> get_is_valid() of its transport]
    control,                       \* position of the thread making lifecycle calls
    transmitCall,                  \* [caller -> transmit_can_frame() in progress]
    hwCrashed,                     \* std::terminate or a crash in undefined behaviour
    nextFrame,                     \* next frame handed to transmit_can_frame()
    accepted,                      \* [network -> frames in the order they were enqueued]
    written,                       \* [network -> frames write_frame() took, in order]
    droppedOnStop,                 \* frames cleared with a TX queue by stop()
    droppedOnUnassign,             \* frames destroyed with a channel by unassign
    busFrames,                     \* count of frames the buses have delivered
    delivered,                     \* [network -> frames stage 1 handed to the network]
    stoppedWithHandler,            \* [network -> handler was removed by stop(), no assign since]
    unclosedTransports,            \* networks whose open transport was dropped without close()
    lockedTransportCalls,          \* transport operations called with hardwareChannelsMutex held
    wakeup                         \* what stage 2 of the update thread's current wakeup has done

VARIABLES
    virtualBus,                    \* [network -> frames on its bus it has not yet received]
    claimsWritten,                 \* [network -> frames of the network written to its transport]
    sharedBus,                     \* the networks' transports are joined by one virtual bus
    channelOrder,                  \* order in which the channel table is iterated
    updatePosition,                \* channels stage 2 has updated in this iteration
    internalControlFunctionList    \* static list of Internal CFs, in creation order

acVars == <<virtualBus, claimsWritten, sharedBus, channelOrder, updatePosition,
            internalControlFunctionList>>

hwVars == <<threadsStarted, hardwareChannels, updateThread, wakeupThread, stackNeedsUpdate,
            hardwareChannelsMutex, driverValid, control, transmitCall, hwCrashed,
            nextFrame, accepted, written, droppedOnStop, droppedOnUnassign, busFrames,
            delivered, stoppedWithHandler, unclosedTransports, lockedTransportCalls, wakeup>>

vars == <<nmVars, hwVars, acVars>>

\* ------------------------------------------------------------ CANIdentifier
IsExtended(raw) == raw > STANDARD_ID_11_BIT_SIZE

get_priority(raw) == IF IsExtended(raw) THEN (raw \div 67108864) % 8 ELSE 0

IsPDU1(raw) == ((raw \div 1048576) % 16) < 15

get_parameter_group_number(raw) ==
    IF IsExtended(raw)
    THEN IF IsPDU1(raw)
         THEN ((raw \div 256) % 262144) - ((raw \div 256) % 256)
         ELSE (raw \div 256) % 262144
    ELSE 16777215

get_destination_address(raw) ==
    IF IsExtended(raw) /\ IsPDU1(raw) THEN (raw \div 256) % 256 ELSE BROADCAST_CAN_ADDRESS

get_source_address(raw) ==
    IF IsExtended(raw) THEN raw % 256 ELSE BROADCAST_CAN_ADDRESS

\* construct_frame leaving the source address out of the identifier.
construct_identifier_without_source(sourceAddress, destAddress, parameterGroupNumber, priority) ==
    LET base == (priority % 8) * 67108864
        pduFormatIsBroadcast == ((parameterGroupNumber \div 4096) % 16) = 15
        pdu1 == (destAddress * 256)
                + ((((parameterGroupNumber % 262144) \div 256) * 256) * 256)
        pdu2 == (parameterGroupNumber % 262144) * 256
    IN  IF destAddress = NULL_CAN_ADDRESS \/ priority > 7 THEN -1
        ELSE IF destAddress = BROADCAST_CAN_ADDRESS
             THEN (IF pduFormatIsBroadcast THEN base + pdu2 ELSE base + pdu1) % 536870912
             ELSE IF ~pduFormatIsBroadcast THEN (base + pdu1) % 536870912 ELSE -1

\* The identifier construct_frame encodes; 4294967295 is DEFAULT_IDENTIFIER
\* and is returned as -1 here.
construct_identifier(sourceAddress, destAddress, parameterGroupNumber, priority) ==
    LET base == ((priority % 8) * 67108864) + (sourceAddress % 256)
        pduFormatIsBroadcast == ((parameterGroupNumber \div 4096) % 16) = 15
        pdu1 == (destAddress * 256)
                + ((((parameterGroupNumber % 262144) \div 256) * 256) * 256)
        pdu2 == (parameterGroupNumber % 262144) * 256
    IN  IF destAddress = NULL_CAN_ADDRESS \/ priority > 7 THEN -1
        ELSE IF destAddress = BROADCAST_CAN_ADDRESS
             THEN (IF pduFormatIsBroadcast THEN base + pdu2 ELSE base + pdu1) % 536870912
             ELSE IF ~pduFormatIsBroadcast THEN (base + pdu1) % 536870912 ELSE -1

\* An address-claim frame as a device with NAME name at address sa sends it.
AddressClaimFrame(name, sa) ==
    [identifier |-> construct_identifier(sa, BROADCAST_CAN_ADDRESS, AddressClaim, 6),
     data |-> name, dataLength |-> CAN_DATA_LENGTH]

\* --------------------------------------------------------------------- NAME
RECURSIVE NameLessFrom(_, _, _)
NameLessFrom(a, b, i) ==
    IF i = 0 THEN FALSE
    ELSE IF a[i] # b[i] THEN a[i] < b[i]
    ELSE NameLessFrom(a, b, i - 1)

\* full NAME a is numerically lower than full NAME b
NameLess(a, b) == NameLessFrom(a, b, 8)

get_arbitrary_address_capable(name) == name[8] >= 128

\* Conjunction over the partner's filters, each comparing one NAME field; a
\* partner without filters matches nothing.
check_matches_name(p, name) ==
    /\ PartnerFilters[p] # {}
    /\ \A f \in PartnerFilters[p] : name[f[1]] = f[2]

\* ------------------------------------------------- network manager state
NMState ==
    [cf |-> controlFunctions, tbl |-> controlFunctionTable,
     inact |-> inactiveControlFunctions, plist |-> partneredControlFunctionList,
     pinit |-> partnerInitialized, pflag |-> anyPartnerNeedsInitializing,
     rxq |-> receiveMessageList, init |-> initialized, ub |-> FALSE,
     sm |-> stateMachine, sent |-> [n \in Networks |-> <<>>], changed |-> {},
     gcb |-> globalParameterGroupNumberCallbacks,
     acb |-> anyControlFunctionParameterGroupNumberCallbacks,
     pcb |-> parameterGroupNumberCallbacks, frame |-> currentFrame, log |-> eventLog,
     send |-> lastSend,
     built |-> constructedFrame, oob |-> tableIndexesOutOfRange,
     nulls |-> emptiedSlotsDereferenced]

SeqToSet(q) == {q[i] : i \in 1 .. Len(q)}

\* An External CF lives while a table, an inactive list or a queued message
\* holds a shared pointer to it; its storage is released with the last one.
Referenced(s) ==
    UNION {{s.tbl[n][a] : a \in TableIndex} : n \in Networks}
    \cup UNION {SeqToSet(s.inact[n]) : n \in Networks}
    \cup UNION {{s.rxq[n][i].source : i \in 1 .. Len(s.rxq[n])} : n \in Networks}
    \cup UNION {{s.rxq[n][i].destination : i \in 1 .. Len(s.rxq[n])} : n \in Networks}

ReleaseUnreferenced(s) ==
    [s EXCEPT !.cf = [c \in CFIds |->
        IF c \in ExternalIds /\ c \notin Referenced(s) THEN BlankCF ELSE s.cf[c]]]

FreeExternal(s) == Min({e \in ExternalIds : s.cf[e].type = "None"})

\* ControlFunction::create: a new External CF
create(s, name, addressValue, net) ==
    [s EXCEPT !.cf[FreeExternal(s)] =
        [type |-> "External", NAME |-> name, address |-> addressValue, network |-> net]]

\* controlFunctionTable[address] with an address that is no index of the
\* std::array of NULL_CAN_ADDRESS slots.
IndexedOutOfRange(s, address) ==
    [s EXCEPT !.ub = TRUE, !.oob = @ \cup ({address} \ (0 .. (NULL_CAN_ADDRESS - 1)))]

\* controlFunctionTable[address] = c; an index past the array is undefined
\* behaviour, recorded in ub.
TableStore(s, net, address, c) ==
    IF address \in TableIndex
    THEN [s EXCEPT !.tbl[net][address] = c]
    ELSE IndexedOutOfRange(s, address)

get_control_function(s, net, address) ==
    IF address < NULL_CAN_ADDRESS /\ address \in TableIndex THEN s.tbl[net][address] ELSE NoCF

\* CFs of the table / inactive list of net other than found whose address is sa
SameAddressCFs(s, net, found, sa) ==
    {c \in ({s.tbl[net][a] : a \in TableIndex} \cup SeqToSet(s.inact[net])) \ {NoCF, found} :
        s.cf[c].address = sa}

update_control_functions(s, net, rxFrame) ==
    IF ~(/\ get_parameter_group_number(rxFrame.identifier) = AddressClaim
         /\ rxFrame.dataLength = CAN_DATA_LENGTH)
    THEN s
    ELSE
    LET claimedNAME == rxFrame.data
        sa == get_source_address(rxFrame.identifier)
        activeIdx == {i \in TableIndex :
                        s.tbl[net][i] # NoCF /\ s.cf[s.tbl[net][i]].NAME = claimedNAME}
        inactiveIdx == {i \in 1 .. Len(s.inact[net]) :
                        s.cf[s.inact[net][i]].NAME = claimedNAME}
        known == IF activeIdx # {} THEN s.tbl[net][Min(activeIdx)]
                 ELSE IF inactiveIdx # {} THEN s.inact[net][Min(inactiveIdx)]
                 ELSE NoCF
        partnerIdx == {i \in 1 .. Len(s.plist) :
                        s.plist[i] # NoCF /\ check_matches_name(s.plist[i], claimedNAME)}
        viaPartner == known = NoCF /\ partnerIdx # {}
        partner == s.plist[Min(partnerIdx)]
        s1 == IF viaPartner
              THEN TableStore([s EXCEPT !.cf[partner].address = sa,
                                        !.cf[partner].NAME = claimedNAME],
                              net, sa, partner)
              ELSE s
        found == IF viaPartner THEN partner ELSE known
        stolen == SameAddressCFs(s1, net, found, sa)
        s2 == [s1 EXCEPT !.cf = [c \in CFIds |->
                 IF c \in stolen THEN [s1.cf[c] EXCEPT !.address = NULL_CAN_ADDRESS]
                 ELSE s1.cf[c]]]
        fresh == FreeExternal(s2)
        s3 == IF found = NoCF
              THEN TableStore(create(s2, claimedNAME, sa, net), net, sa, fresh)
              ELSE s2
        claimer == IF found = NoCF THEN fresh ELSE found
    IN  [s3 EXCEPT !.cf[claimer].address = sa]

receive_can_message(s, net, message) ==
    IF s.init[net] THEN [s EXCEPT !.rxq[net] = Append(@, message)] ELSE s

process_receive_can_message_frame(s, net, rxFrame) ==
    LET s1 == update_control_functions(s, net, rxFrame)
        message == [identifier |-> rxFrame.identifier,
                    source |-> get_control_function(s1, net, get_source_address(rxFrame.identifier)),
                    destination |-> get_control_function(s1, net, get_destination_address(rxFrame.identifier)),
                    data |-> rxFrame.data,
                    dataLength |-> rxFrame.dataLength,
                    frame |-> s.frame]
    IN  receive_can_message(s1, net, message)

\* An event or a callback invoked for a frame: the log keeps the order.
Invoke(s, kind, frame, owner, index) ==
    [s EXCEPT !.log = Append(@, [kind |-> kind, frame |-> frame, owner |-> owner, index |-> index])]

\* A callback invoked with a message: the log keeps what the callback is given.
InvokeCallback(s, kind, message, owner, index) ==
    [s EXCEPT !.log = Append(@, [kind |-> kind, frame |-> message.frame, owner |-> owner,
                                 index |-> index, identifier |-> message.identifier,
                                 source |-> message.source,
                                 destination |-> message.destination])]

\* The body of the stage 1 loop of the update thread for one frame:
\* frameReceivedEventDispatcher.invoke(frame), then
\* receive_can_message_frame_from_hardware(network, frame).
handing_over_before_event(s, net, rxFrame) ==
    LET s1 == [s EXCEPT !.frame = @ + 1]
        s2 == Invoke(s1, "receive_can_message_frame_from_hardware", s1.frame, NoCF, 0)
        s3 == process_receive_can_message_frame(s2, net, rxFrame)
    IN  Invoke(s3, "on_frame_received", s1.frame, NoCF, 0)

update_thread_stage1_frame(s, net, rxFrame) ==
    LET s1 == [s EXCEPT !.frame = @ + 1]
        s2 == Invoke(s1, "on_frame_received", s1.frame, NoCF, 0)
        s3 == Invoke(s2, "receive_can_message_frame_from_hardware", s1.frame, NoCF, 0)
    IN  process_receive_can_message_frame(s3, net, rxFrame)

\* update_address_table(claimedAddress).  The eviction branch logs through the
\* slot it has just set to nullptr: undefined behaviour, recorded in ub.
update_address_table(s, net, claimedAddress) ==
    IF claimedAddress \notin TableIndex THEN IndexedOutOfRange(s, claimedAddress)
    ELSE
    LET occupant == s.tbl[net][claimedAddress]
        evict == occupant # NoCF /\ s.cf[occupant].address = NULL_CAN_ADDRESS
        s1 == IF evict
              THEN [s EXCEPT !.inact[net] = Append(@, occupant),
                             !.tbl[net][claimedAddress] = NoCF,
                             !.nulls = @ \cup {<<net, claimedAddress>>},
                             !.ub = TRUE]
              ELSE s
        free == s1.tbl[net][claimedAddress] = NoCF
        movedIdx == {i \in TableIndex :
                        /\ s1.tbl[net][i] # NoCF
                        /\ i # claimedAddress
                        /\ s1.cf[s1.tbl[net][i]].address = claimedAddress}
        s2 == IF free /\ movedIdx # {}
              THEN [s1 EXCEPT !.tbl[net][claimedAddress] = s1.tbl[net][Min(movedIdx)],
                              !.tbl[net][Min(movedIdx)] = NoCF]
              ELSE s1
        inactiveIdx == {i \in 1 .. Len(s1.inact[net]) :
                        s1.cf[s1.inact[net][i]].address = claimedAddress}
    IN  IF free /\ inactiveIdx # {}
        THEN [s2 EXCEPT !.tbl[net][claimedAddress] = s1.inact[net][Min(inactiveIdx)]]
        ELSE s2

\* update_address_table(message)
update_address_table_message(s, net, message) ==
    IF get_parameter_group_number(message.identifier) = AddressClaim
    THEN update_address_table(s, net, get_source_address(message.identifier))
    ELSE s

\* ---------------------------------------------- address claim state machine
ParameterGroupNumberRequest == 59904
DynamicAddresses == 128 .. 247

\* send_can_message_raw: the frame goes to the channel of the network unless
\* construct_frame refused it.
send_can_message_raw(s, net, sourceAddress, destAddress, pgn, priority, data, size) ==
    LET identifier == construct_identifier(sourceAddress, destAddress, pgn, priority)
    IN  IF identifier # -1 /\ size <= CAN_DATA_LENGTH
        THEN [s EXCEPT !.sent[net] = Append(@, [identifier |-> identifier, data |-> data,
                                                dataLength |-> size])]
        ELSE s

\* The address claim of c with source address: PGN 0xEE00 to the global
\* address, priority 6, payload the NAME.  Source 0xFE is "cannot claim".
send_address_claim(s, c, address) ==
    send_can_message_raw(s, s.cf[c].network, address, BROADCAST_CAN_ADDRESS, AddressClaim, 6,
                         s.cf[c].NAME, CAN_DATA_LENGTH)

\* The request for address claim: PGN 0xEA00, destination 0xFE, payload the
\* requested PGN.
send_request_to_claim(s, c) ==
    send_can_message_raw(s, s.cf[c].network, NULL_CAN_ADDRESS, NULL_CAN_ADDRESS,
                         ParameterGroupNumberRequest, 6, <<0, 238, 0>>, 3)

\* The first address of the dynamic range the network's table has free.
next_free_address(s, net) ==
    LET free == {a \in DynamicAddresses \cap TableIndex : get_control_function(s, net, a) = NoCF}
    IN  IF free = {} THEN NULL_CAN_ADDRESS ELSE Min(free)

\* Another NAME holds or claims the address c is after: the lower NAME keeps
\* it, an arbitrary-address-capable loser moves on, any other loser gives up.
contend_for_address(s, c, otherNAME) ==
    LET m == s.sm[c]
        free == next_free_address(s, s.cf[c].network)
    IN  IF NameLess(s.cf[c].NAME, otherNAME)
        THEN send_address_claim(
                [s EXCEPT !.sm[c] = [m EXCEPT !.state = "AddressClaimed",
                                              !.claimedAddress = m.targetAddress,
                                              !.expired = FALSE]],
                c, m.targetAddress)
        ELSE IF get_arbitrary_address_capable(s.cf[c].NAME) /\ free # NULL_CAN_ADDRESS
        THEN [s EXCEPT !.sm[c] = [m EXCEPT !.state = "Claiming", !.targetAddress = free,
                                           !.claimedAddress = NULL_CAN_ADDRESS,
                                           !.expired = FALSE]]
        ELSE send_address_claim(
                [s EXCEPT !.sm[c] = [m EXCEPT !.state = "UnableToClaim",
                                              !.claimedAddress = NULL_CAN_ADDRESS,
                                              !.expired = FALSE]],
                c, NULL_CAN_ADDRESS)

\* AddressClaimStateMachine::process_rx_message: a claim for our address.
process_rx_message(s, c, message) ==
    IF /\ s.sm[c].state = "AddressClaimed"
       /\ get_parameter_group_number(message.identifier) = AddressClaim
       /\ get_source_address(message.identifier) = s.sm[c].claimedAddress
       /\ message.data # s.cf[c].NAME
    THEN contend_for_address(s, c, message.data)
    ELSE s

\* AddressClaimStateMachine::update, driven by the periodic tick.
state_machine_update(s, c) ==
    LET m == s.sm[c]
        occupant == get_control_function(s, s.cf[c].network, m.targetAddress)
    IN  IF m.state = "WaitingForClaim" /\ m.expired
        THEN send_request_to_claim(
                [s EXCEPT !.sm[c] = [m EXCEPT !.state = "Claiming",
                                              !.targetAddress = m.preferredAddress,
                                              !.expired = FALSE]], c)
        ELSE IF m.state = "Claiming" /\ m.expired
        THEN IF occupant = NoCF \/ occupant = c
             THEN send_address_claim(
                     [s EXCEPT !.sm[c] = [m EXCEPT !.state = "AddressClaimed",
                                                   !.claimedAddress = m.targetAddress,
                                                   !.expired = FALSE]],
                     c, m.targetAddress)
             ELSE contend_for_address(s, c, s.cf[occupant].NAME)
        ELSE s

\* InternalControlFunction::update: run the machine, take over its address.
internal_control_function_update(s, c) ==
    LET s1 == state_machine_update(s, c)
        claimed == s1.sm[c].claimedAddress
    IN  [s1 EXCEPT !.cf[c].address = claimed,
                   !.changed = IF s.cf[c].address # claimed THEN @ \cup {c} ELSE @ \ {c}]

RECURSIVE update_address_claiming_from(_, _)
update_address_claiming_from(s, i) ==
    IF i > Len(internalControlFunctionList) THEN s
    ELSE update_address_claiming_from(
            internal_control_function_update(s, internalControlFunctionList[i]), i + 1)

\* InternalControlFunction::update_address_claiming: static, every Internal CF.
update_address_claiming(s) == update_address_claiming_from([s EXCEPT !.changed = {}], 1)

\* process_protocol_pgn_callbacks: the machines of the network's Internal CFs
\* listen for address claims.
RECURSIVE process_protocol_pgn_callbacks_from(_, _, _, _)
process_protocol_pgn_callbacks_from(s, net, message, i) ==
    IF i > Len(internalControlFunctionList) THEN s
    ELSE LET c == internalControlFunctionList[i]
         IN  process_protocol_pgn_callbacks_from(
                IF /\ s.cf[c].network = net
                   /\ get_parameter_group_number(message.identifier) = AddressClaim
                THEN process_rx_message(InvokeCallback(s, "protocol", message, c, 1), c, message)
                ELSE s,
                net, message, i + 1)

process_protocol_pgn_callbacks(s, net, message) ==
    process_protocol_pgn_callbacks_from(s, net, message, 1)

\* update(): the loop over the static list of Internal CFs after address
\* claiming has run.
RECURSIVE update_internal_control_functions_from(_, _, _)
update_internal_control_functions_from(s, net, i) ==
    IF i > Len(internalControlFunctionList) THEN s
    ELSE LET c == internalControlFunctionList[i]
             s1 == IF c \in SeqToSet(s.inact[net]) THEN s
                   ELSE [s EXCEPT !.inact[net] = Append(@, c)]
             s2 == IF c \in s.changed
                   THEN update_address_table(s1, net, s1.cf[c].address)
                   ELSE s1
         IN  update_internal_control_functions_from(s2, net, i + 1)

update_internal_control_functions(s, net) ==
    IF s.changed # {} THEN update_internal_control_functions_from(s, net, 1) ELSE s

RemoveAt(q, i) == SubSeq(q, 1, i - 1) \o SubSeq(q, i + 1, Len(q))

\* The body of update_new_partners' loop for one uninitialized partner.
bind_new_partner(s, net, partner) ==
    LET inactiveIdx == {i \in 1 .. Len(s.inact[net]) :
                        /\ check_matches_name(partner, s.cf[s.inact[net][i]].NAME)
                        /\ s.cf[partner].network = net
                        /\ s.cf[s.inact[net][i]].type = "External"}
        activeIdx == {i \in TableIndex :
                        /\ s.tbl[net][i] # NoCF
                        /\ check_matches_name(partner, s.cf[s.tbl[net][i]].NAME)
                        /\ s.cf[partner].network = net
                        /\ s.cf[s.tbl[net][i]].type = "External"}
        fromInactive == s.inact[net][Min(inactiveIdx)]
        fromActive == s.tbl[net][Min(activeIdx)]
        s1 == IF inactiveIdx # {}
              THEN [s EXCEPT !.cf[partner].address = s.cf[fromInactive].address,
                             !.cf[partner].NAME = s.cf[fromInactive].NAME,
                             !.inact[net] = RemoveAt(@, Min(inactiveIdx))]
              ELSE IF activeIdx # {}
              THEN TableStore([s EXCEPT !.cf[partner].address = s.cf[fromActive].address,
                                        !.cf[partner].NAME = s.cf[fromActive].NAME],
                              net, s.cf[fromActive].address, partner)
              ELSE s
    IN  [s1 EXCEPT !.pinit[partner] = TRUE]

RECURSIVE update_new_partners_from(_, _, _)
update_new_partners_from(s, net, i) ==
    IF i > Len(s.plist) THEN s
    ELSE IF s.plist[i] # NoCF /\ ~s.pinit[s.plist[i]]
         THEN update_new_partners_from(bind_new_partner(s, net, s.plist[i]), net, i + 1)
         ELSE update_new_partners_from(s, net, i + 1)

update_new_partners(s, net) ==
    IF s.pflag
    THEN [update_new_partners_from(s, net, 1) EXCEPT !.pflag = FALSE]
    ELSE s

\* The callbacks of a list whose PGN is the message's, invoked in list order.
RECURSIVE invoke_matching(_, _, _, _, _, _)
invoke_matching(s, kind, owner, callbacks, message, i) ==
    IF i > Len(callbacks) THEN s
    ELSE invoke_matching(
            IF callbacks[i] = get_parameter_group_number(message.identifier)
            THEN InvokeCallback(s, kind, message, owner, i)
            ELSE s,
            kind, owner, callbacks, message, i + 1)

process_any_control_function_pgn_callbacks(s, currentMessage) ==
    IF \/ currentMessage.destination = NoCF
       \/ s.cf[currentMessage.destination].type = "Internal"
    THEN invoke_matching(s, "anyControlFunction", NoCF, s.acb, currentMessage, 1)
    ELSE s

\* The loop over the static list of partners for a message destined to one
\* of our Internal CFs.  A callback the partner registered carries no
\* Internal CF of its own, so the last test of the code's condition passes.
RECURSIVE partner_callbacks_from(_, _, _, _)
partner_callbacks_from(s, net, message, j) ==
    IF j > Len(s.plist) THEN s
    ELSE LET currentControlFunction == s.plist[j]
         IN  partner_callbacks_from(
                IF currentControlFunction # NoCF /\ s.cf[currentControlFunction].network = net
                THEN invoke_matching(s, "partner", currentControlFunction,
                                     s.pcb[currentControlFunction], message, 1)
                ELSE s,
                net, message, j + 1)

process_can_message_for_global_and_partner_callbacks(s, net, message) ==
    IF /\ message.destination = NoCF
       /\ \/ message.source # NoCF
          \/ /\ get_parameter_group_number(message.identifier) = ParameterGroupNumberRequest
             /\ get_source_address(message.identifier) = NULL_CAN_ADDRESS
    THEN invoke_matching(s, "global", NoCF, s.gcb, message, 1)
    ELSE IF message.destination \in SeqToSet(internalControlFunctionList)
    THEN partner_callbacks_from(s, net, message, 1)
    ELSE s

\* process_rx_messages: drain the queue in order.
RECURSIVE process_rx_messages(_, _)
process_rx_messages(s, net) ==
    IF s.rxq[net] = <<>> THEN s
    ELSE LET currentMessage == Head(s.rxq[net])
             s1 == [s EXCEPT !.rxq[net] = Tail(@)]
             s2 == update_address_table_message(s1, net, currentMessage)
             s3 == process_protocol_pgn_callbacks(s2, net, currentMessage)
             s4 == process_any_control_function_pgn_callbacks(s3, currentMessage)
         IN  process_rx_messages(
                process_can_message_for_global_and_partner_callbacks(s4, net, currentMessage),
                net)

initialize(s, net) ==
    IF ~s.init[net] THEN [s EXCEPT !.rxq[net] = <<>>, !.init[net] = TRUE] ELSE s

\* CANNetworkManager::update
update(s, net) ==
    update_internal_control_functions(
        update_address_claiming(
            process_rx_messages(update_new_partners(initialize(s, net), net), net)),
        net)

\* on_control_function_destroyed: the loop over the table, visiting in
\* increasing order the slots that held the CF when the loop began.
RECURSIVE destroyed_table_loop(_, _, _, _)
destroyed_table_loop(s, net, c, slots) ==
    IF slots = {} THEN s
    ELSE LET i == Min(slots)
             s1 == IF s.tbl[net][i] # c THEN s
                   ELSE IF s.init[net]
                   THEN TableStore(create(s, s.cf[c].NAME, s.cf[c].address, net),
                                   net, s.cf[c].address, FreeExternal(s))
                   ELSE [s EXCEPT !.tbl[net][i] = NoCF]
         IN  destroyed_table_loop(ReleaseUnreferenced(s1), net, c, slots \ {i})

on_control_function_destroyed(s, net, c) ==
    LET idx == {i \in 1 .. Len(s.inact[net]) : s.inact[net][i] = c}
        s1 == IF idx # {} THEN [s EXCEPT !.inact[net] = RemoveAt(@, Min(idx))] ELSE s
    IN  destroyed_table_loop(s1, net, c, {i \in TableIndex : s1.tbl[net][i] = c})


\* ------------------------------------------------------------ NM actions
\* No thread is inside update().
NoMessage == [identifier |-> 0, source |-> NoCF, destination |-> NoCF, data |-> <<>>,
              dataLength |-> 0, frame |-> 0]
NoUpdate == [pc |-> "idle", network |-> 0, message |-> NoMessage, registry |-> "none",
             index |-> 0]

NoClaim == [name |-> ZeroName, sa |-> NULL_CAN_ADDRESS]

SetNMState(s) ==
    /\ controlFunctions' = s.cf
    /\ controlFunctionTable' = s.tbl
    /\ inactiveControlFunctions' = s.inact
    /\ partneredControlFunctionList' = s.plist
    /\ partnerInitialized' = s.pinit
    /\ anyPartnerNeedsInitializing' = s.pflag
    /\ receiveMessageList' = s.rxq
    /\ initialized' = s.init
    /\ stateMachine' = s.sm
    /\ globalParameterGroupNumberCallbacks' = s.gcb
    /\ anyControlFunctionParameterGroupNumberCallbacks' = s.acb
    /\ parameterGroupNumberCallbacks' = s.pcb
    /\ currentFrame' = s.frame
    /\ lastSend' = s.send
    /\ constructedFrame' = s.built
    /\ UNCHANGED busloadVars
    /\ eventLog' = s.log

\* A handler that ran into undefined behaviour either carries on with the
\* state it computed or takes the process down.
Finish(s, crash) ==
    /\ crash => s.ub
    /\ nmCrashed' = crash
    /\ tableIndexesOutOfRange' = s.oob
    /\ emptiedSlotsDereferenced' = s.nulls
    /\ IF crash
       THEN UNCHANGED <<controlFunctions, controlFunctionTable, inactiveControlFunctions,
                        partneredControlFunctionList, partnerInitialized,
                        anyPartnerNeedsInitializing, receiveMessageList, initialized,
                        stateMachine, globalParameterGroupNumberCallbacks,
                        anyControlFunctionParameterGroupNumberCallbacks,
                        parameterGroupNumberCallbacks, currentFrame, lastSend,
                        constructedFrame, eventLog, busloadVars>>
       ELSE SetNMState(ReleaseUnreferenced(s))

\* The handler is not followed step by step: no registry mutex is held when
\* it has returned.
Outcome(s, crash) == Finish(s, crash) /\ UNCHANGED registryVars

NoStateMachine == [state |-> "None", preferredAddress |-> NULL_CAN_ADDRESS,
                   targetAddress |-> NULL_CAN_ADDRESS, claimedAddress |-> NULL_CAN_ADDRESS,
                   expired |-> FALSE]

\* Stage 1 of the update thread hands one frame of the bus to the network.
ReceiveAddressClaim(net, name, sa) ==
    /\ ~nmCrashed
    /\ framesReceived < MaxFrames
    /\ framesReceived' = framesReceived + 1
    /\ lastClaim' = [lastClaim EXCEPT ![net] = [name |-> name, sa |-> sa]]
    /\ updatedSinceFrame' = [updatedSinceFrame EXCEPT ![net] = FALSE]
    /\ busClaims' = [busClaims EXCEPT ![net] = [a \in BusAddresses |->
                        IF a = sa THEN name ELSE IF @[a] = name THEN ZeroName ELSE @[a]]]
    /\ namesSeen' = [namesSeen EXCEPT ![net] = @ \cup {name}]
    /\ UNCHANGED partnerUpdated
    /\ \E crash \in BOOLEAN :
        Outcome(update_thread_stage1_frame(NMState, net, AddressClaimFrame(name, sa)), crash)
    /\ UNCHANGED <<hwVars, acVars>>

\* Stage 2 of the update thread: periodic_update_from_hardware(network).
Update(net) ==
    /\ ~nmCrashed
    /\ updatedSinceFrame' = [updatedSinceFrame EXCEPT ![net] = TRUE]
    /\ partnerUpdated' = [p \in PartnerIds |->
                            partnerUpdated[p] \/ (controlFunctions[p].network = net)]
    /\ UNCHANGED <<framesReceived, lastClaim, busClaims, namesSeen>>
    /\ \E crash \in BOOLEAN : Outcome(update(NMState, net), crash)
    /\ UNCHANGED <<hwVars, acVars>>

\* PartneredControlFunction::create(network, filters)
CreatePartner(p) ==
    /\ ~nmCrashed
    /\ controlFunctions[p].type = "None"
    /\ \A i \in 1 .. Len(partneredControlFunctionList) : partneredControlFunctionList[i] # p
    /\ controlFunctions' = [controlFunctions EXCEPT ![p] =
            [type |-> "Partnered", NAME |-> ZeroName, address |-> NULL_CAN_ADDRESS,
             network |-> PartnerNetwork[p]]]
    /\ partneredControlFunctionList' = Append(partneredControlFunctionList, p)
    /\ partnerInitialized' = [partnerInitialized EXCEPT ![p] = FALSE]
    /\ anyPartnerNeedsInitializing' = TRUE
    /\ partnerUpdated' = [partnerUpdated EXCEPT ![p] = FALSE]
    /\ parameterGroupNumberCallbacks' = [parameterGroupNumberCallbacks EXCEPT ![p] = <<>>]
    /\ UNCHANGED <<controlFunctionTable, inactiveControlFunctions, receiveMessageList,
                   initialized, stateMachine, nmCrashed, framesReceived, lastClaim,
                   updatedSinceFrame, busClaims, namesSeen, globalParameterGroupNumberCallbacks,
                   anyControlFunctionParameterGroupNumberCallbacks, currentFrame, lastSend,
                   constructedFrame, eventLog, busloadVars, registryVars,
                   tableIndexesOutOfRange, emptiedSlotsDereferenced>>
    /\ UNCHANGED <<hwVars, acVars>>

\* PartneredControlFunction::destroy: the list entry becomes nullptr and the
\* partner's network is told.
DestroyPartner(p) ==
    /\ ~nmCrashed
    /\ \E i \in 1 .. Len(partneredControlFunctionList) : partneredControlFunctionList[i] = p
    /\ LET s1 == [NMState EXCEPT !.plist = [i \in 1 .. Len(@) |-> IF @[i] = p THEN NoCF ELSE @[i]],
                                 !.pcb[p] = <<>>]
       IN  \E crash \in BOOLEAN :
             Outcome(on_control_function_destroyed(s1, controlFunctions[p].network, p), crash)
    /\ UNCHANGED <<framesReceived, lastClaim, updatedSinceFrame, busClaims, namesSeen,
                   partnerUpdated>>
    /\ UNCHANGED <<hwVars, acVars>>

\* ----------------------------------------------------- address claim actions
\* The Internal CFs the application creates: CF c on network c.
InternalNetwork == [c \in InternalIds |-> c]
InternalNames == [c \in InternalIds |->
                    {<<c, 0, 0, 0, 0, 0, 0, 128>>, <<c, 0, 0, 0, 0, 0, 0, 0>>}]
PreferredAddresses == [c \in InternalIds |-> IF c = 1 THEN {28} ELSE {28, 29}]
OtherNetwork(net) == 3 - net

\* InternalControlFunction::create(name, preferredAddress, network)
CreateInternal(c, name, preferredAddress) ==
    /\ ~nmCrashed
    /\ stateMachine[c].state = "None"
    /\ controlFunctions' = [controlFunctions EXCEPT ![c] =
            [type |-> "Internal", NAME |-> name, address |-> NULL_CAN_ADDRESS,
             network |-> InternalNetwork[c]]]
    /\ stateMachine' = [stateMachine EXCEPT ![c] =
            [NoStateMachine EXCEPT !.state = "WaitingForClaim",
                                   !.preferredAddress = preferredAddress]]
    /\ internalControlFunctionList' = Append(internalControlFunctionList, c)
    /\ UNCHANGED <<controlFunctionTable, inactiveControlFunctions,
                   partneredControlFunctionList, partnerInitialized,
                   anyPartnerNeedsInitializing, receiveMessageList, initialized, nmCrashed,
                   framesReceived, lastClaim, updatedSinceFrame, busClaims, namesSeen,
                   partnerUpdated, globalParameterGroupNumberCallbacks,
                   anyControlFunctionParameterGroupNumberCallbacks,
                   parameterGroupNumberCallbacks, currentFrame, lastSend, constructedFrame,
                   eventLog, busloadVars, registryVars,
                   tableIndexesOutOfRange, emptiedSlotsDereferenced>>
    /\ UNCHANGED <<virtualBus, claimsWritten, sharedBus, channelOrder, updatePosition>>
    /\ UNCHANGED hwVars

\* The hold-off or the 250 ms contention wait of c's machine runs out.
TimerExpires(c) ==
    /\ ~nmCrashed
    /\ stateMachine[c].state \in {"WaitingForClaim", "Claiming"}
    /\ ~stateMachine[c].expired
    /\ stateMachine' = [stateMachine EXCEPT ![c].expired = TRUE]
    /\ UNCHANGED <<controlFunctionTable, inactiveControlFunctions, controlFunctions,
                   partneredControlFunctionList, partnerInitialized,
                   anyPartnerNeedsInitializing, receiveMessageList, initialized, nmCrashed,
                   framesReceived, lastClaim, updatedSinceFrame, busClaims, namesSeen,
                   partnerUpdated, globalParameterGroupNumberCallbacks,
                   anyControlFunctionParameterGroupNumberCallbacks,
                   parameterGroupNumberCallbacks, currentFrame, lastSend, constructedFrame,
                   eventLog, busloadVars, registryVars,
                   tableIndexesOutOfRange, emptiedSlotsDereferenced>>
    /\ UNCHANGED <<hwVars, acVars>>

\* Stage 1 of the update thread: the next frame the channel of net has
\* received goes to receive_can_message_frame_from_hardware.
ReceiveFrame(net) ==
    /\ ~nmCrashed
    /\ updatePosition = 0
    /\ updateCall.pc = "idle"
    /\ virtualBus[net] # <<>>
    /\ virtualBus' = [virtualBus EXCEPT ![net] = Tail(@)]
    /\ \E crash \in BOOLEAN :
        Outcome(update_thread_stage1_frame(NMState, net, Head(virtualBus[net])), crash)
    /\ UNCHANGED <<framesReceived, lastClaim, updatedSinceFrame, busClaims, namesSeen,
                   partnerUpdated>>
    /\ UNCHANGED <<claimsWritten, sharedBus, channelOrder, updatePosition,
                   internalControlFunctionList>>
    /\ UNCHANGED hwVars

\* Stage 2 of the update thread for the next channel of the table, and with
\* it stage 3 for the frames the update has queued: each is written to the
\* transport of its channel, which puts it on the bus of the other channel
\* when the two are joined.
UpdateNetwork ==
    /\ ~nmCrashed
    /\ updatePosition' = (updatePosition + 1) % Len(channelOrder)
    /\ LET s == update(NMState, channelOrder[updatePosition + 1])
       IN  \E crash \in BOOLEAN :
            /\ Outcome(s, crash)
            /\ claimsWritten' = [n \in Networks |->
                    IF crash THEN claimsWritten[n] ELSE claimsWritten[n] \cup SeqToSet(s.sent[n])]
            /\ virtualBus' = [n \in Networks |->
                    IF crash \/ ~sharedBus THEN virtualBus[n]
                    ELSE virtualBus[n] \o s.sent[OtherNetwork(n)]]
    /\ UNCHANGED <<framesReceived, lastClaim, updatedSinceFrame, busClaims, namesSeen,
                   partnerUpdated>>
    /\ UNCHANGED <<sharedBus, channelOrder, internalControlFunctionList>>
    /\ UNCHANGED hwVars

ClaimNext ==
    \/ \E c \in InternalIds, name \in UNION {InternalNames[d] : d \in InternalIds},
          preferredAddress \in UNION {PreferredAddresses[d] : d \in InternalIds} :
            /\ name \in InternalNames[c]
            /\ preferredAddress \in PreferredAddresses[c]
            /\ CreateInternal(c, name, preferredAddress)
    \/ \E c \in InternalIds : TimerExpires(c)
    \/ \E net \in Networks : ReceiveFrame(net)
    \/ UpdateNetwork

NMNext ==
    \/ \E net \in BusNetworks, name \in BusNames, sa \in BusAddresses :
            ReceiveAddressClaim(net, name, sa)
    \/ \E net \in Networks : Update(net)
    \/ \E p \in PartnerIds : CreatePartner(p)
    \/ \E p \in PartnerIds : DestroyPartner(p)

\* The source addresses of the address-claim frames on a bus where a device
\* also fails to claim: a device that lost its address announces it from the
\* null address, and nothing keeps a frame from carrying the global one.
CannotClaimSources == {NULL_CAN_ADDRESS, BROADCAST_CAN_ADDRESS}
ClaimSources == {Min(BusAddresses)} \cup CannotClaimSources

\* Devices claim addresses on the buses of both networks; the partner is
\* registered on one of them.
BothBusesNext ==
    \/ \E net \in Networks, name \in BusNames, sa \in BusAddresses :
            ReceiveAddressClaim(net, name, sa)
    \/ \E net \in Networks : Update(net)
    \/ \E p \in PartnerIds : CreatePartner(p)

CannotClaimNext ==
    \/ \E net \in BusNetworks, name \in BusNames, sa \in ClaimSources :
            ReceiveAddressClaim(net, name, sa)
    \/ \E net \in Networks : Update(net)
    \/ \E p \in PartnerIds : CreatePartner(p)


\* ----------------------------------------------------- message dispatch
\* The PGN the application listens for, the frames the devices on the bus
\* send with it, and the count of frames they send.
MaxBusTraffic == 2
ApplicationPGN == 61184
DataFrame(sa, da) ==
    [identifier |-> construct_identifier(sa, da, ApplicationPGN, 6),
     data |-> <<1, 2, 3, 4, 5, 6, 7, 8>>, dataLength |-> CAN_DATA_LENGTH]
DataSources == {39}
DataDestinations == {BROADCAST_CAN_ADDRESS, 28, 38}
BusTrafficFrames ==
    {AddressClaimFrame(NameVT1, 39)}
    \cup {DataFrame(sa, da) : sa \in DataSources, da \in DataDestinations}

\* A device on the bus of net sends a frame; the channel's RX thread queues it.
BusTraffic(net, frame) ==
    /\ ~nmCrashed
    /\ framesReceived < MaxBusTraffic
    /\ framesReceived' = framesReceived + 1
    /\ virtualBus' = [virtualBus EXCEPT ![net] = Append(@, frame)]
    /\ UNCHANGED <<controlFunctionTable, inactiveControlFunctions, controlFunctions,
                   partneredControlFunctionList, partnerInitialized,
                   anyPartnerNeedsInitializing, receiveMessageList, initialized, stateMachine,
                   nmCrashed, lastClaim, updatedSinceFrame, busClaims, namesSeen,
                   partnerUpdated, globalParameterGroupNumberCallbacks,
                   anyControlFunctionParameterGroupNumberCallbacks,
                   parameterGroupNumberCallbacks, currentFrame, lastSend, constructedFrame,
                   eventLog, busloadVars, registryVars,
                   tableIndexesOutOfRange, emptiedSlotsDereferenced>>
    /\ UNCHANGED <<claimsWritten, sharedBus, channelOrder, updatePosition,
                   internalControlFunctionList>>
    /\ UNCHANGED hwVars

\* The application registers a callback of each kind once.
add_global_parameter_group_number_callback(parameterGroupNumber) ==
    /\ ~nmCrashed
    /\ globalParameterGroupNumberCallbacks = <<>>
    /\ globalParameterGroupNumberCallbacks' =
            Append(globalParameterGroupNumberCallbacks, parameterGroupNumber)
    /\ UNCHANGED <<controlFunctionTable, inactiveControlFunctions, controlFunctions,
                   partneredControlFunctionList, partnerInitialized,
                   anyPartnerNeedsInitializing, receiveMessageList, initialized, stateMachine,
                   nmCrashed, framesReceived, lastClaim, updatedSinceFrame, busClaims,
                   namesSeen, partnerUpdated, anyControlFunctionParameterGroupNumberCallbacks,
                   parameterGroupNumberCallbacks, currentFrame, lastSend, constructedFrame,
                   eventLog, busloadVars, registryVars,
                   tableIndexesOutOfRange, emptiedSlotsDereferenced>>
    /\ UNCHANGED <<hwVars, acVars>>

add_any_control_function_parameter_group_number_callback(parameterGroupNumber) ==
    /\ ~nmCrashed
    /\ registryMutex.anyControlFunctionCallbacksMutex = "free"
    /\ anyControlFunctionParameterGroupNumberCallbacks = <<>>
    /\ anyControlFunctionParameterGroupNumberCallbacks' =
            Append(anyControlFunctionParameterGroupNumberCallbacks, parameterGroupNumber)
    /\ UNCHANGED <<controlFunctionTable, inactiveControlFunctions, controlFunctions,
                   partneredControlFunctionList, partnerInitialized,
                   anyPartnerNeedsInitializing, receiveMessageList, initialized, stateMachine,
                   nmCrashed, framesReceived, lastClaim, updatedSinceFrame, busClaims,
                   namesSeen, partnerUpdated, globalParameterGroupNumberCallbacks,
                   parameterGroupNumberCallbacks, currentFrame, lastSend, constructedFrame,
                   eventLog, busloadVars, registryVars,
                   tableIndexesOutOfRange, emptiedSlotsDereferenced>>
    /\ UNCHANGED <<hwVars, acVars>>

\* PartneredControlFunction::add_parameter_group_number_callback
add_parameter_group_number_callback(p, parameterGroupNumber) ==
    /\ ~nmCrashed
    /\ controlFunctions[p].type = "Partnered"
    /\ parameterGroupNumberCallbacks[p] = <<>>
    /\ parameterGroupNumberCallbacks' =
            [parameterGroupNumberCallbacks EXCEPT ![p] = Append(@, parameterGroupNumber)]
    /\ UNCHANGED <<controlFunctionTable, inactiveControlFunctions, controlFunctions,
                   partneredControlFunctionList, partnerInitialized,
                   anyPartnerNeedsInitializing, receiveMessageList, initialized, stateMachine,
                   nmCrashed, framesReceived, lastClaim, updatedSinceFrame, busClaims,
                   namesSeen, partnerUpdated, globalParameterGroupNumberCallbacks,
                   anyControlFunctionParameterGroupNumberCallbacks, currentFrame, lastSend,
                   constructedFrame, eventLog, busloadVars, registryVars,
                   tableIndexesOutOfRange, emptiedSlotsDereferenced>>
    /\ UNCHANGED <<hwVars, acVars>>

\* One Internal CF on network 1, a partner, the callbacks and the bus.
DispatchNext ==
    \/ \E name \in {<<1, 0, 0, 0, 0, 0, 0, 128>>} : CreateInternal(1, name, 28)
    \/ TimerExpires(1)
    \/ \E net \in BusNetworks : ReceiveFrame(net)
    \/ UpdateNetwork
    \/ \E p \in PartnerIds : CreatePartner(p)
    \/ add_global_parameter_group_number_callback(ApplicationPGN)
    \/ add_any_control_function_parameter_group_number_callback(ApplicationPGN)
    \/ \E p \in PartnerIds : add_parameter_group_number_callback(p, ApplicationPGN)
    \/ \E net \in BusNetworks, frame \in BusTrafficFrames : BusTraffic(net, frame)

\* The application registers, a second time, a callback that is already in the
\* registry with the same PGN, function and context.
add_global_parameter_group_number_callback_again(parameterGroupNumber) ==
    /\ ~nmCrashed
    /\ globalParameterGroupNumberCallbacks = <<parameterGroupNumber>>
    /\ globalParameterGroupNumberCallbacks' =
            Append(globalParameterGroupNumberCallbacks, parameterGroupNumber)
    /\ UNCHANGED <<controlFunctionTable, inactiveControlFunctions, controlFunctions,
                   partneredControlFunctionList, partnerInitialized,
                   anyPartnerNeedsInitializing, receiveMessageList, initialized, stateMachine,
                   nmCrashed, framesReceived, lastClaim, updatedSinceFrame, busClaims,
                   namesSeen, partnerUpdated, anyControlFunctionParameterGroupNumberCallbacks,
                   parameterGroupNumberCallbacks, currentFrame, lastSend, constructedFrame,
                   eventLog, busloadVars, registryVars,
                   tableIndexesOutOfRange, emptiedSlotsDereferenced>>
    /\ UNCHANGED <<hwVars, acVars>>

add_any_control_function_parameter_group_number_callback_again(parameterGroupNumber) ==
    /\ ~nmCrashed
    /\ anyControlFunctionParameterGroupNumberCallbacks = <<parameterGroupNumber>>
    /\ anyControlFunctionParameterGroupNumberCallbacks' =
            Append(anyControlFunctionParameterGroupNumberCallbacks, parameterGroupNumber)
    /\ UNCHANGED <<controlFunctionTable, inactiveControlFunctions, controlFunctions,
                   partneredControlFunctionList, partnerInitialized,
                   anyPartnerNeedsInitializing, receiveMessageList, initialized, stateMachine,
                   nmCrashed, framesReceived, lastClaim, updatedSinceFrame, busClaims,
                   namesSeen, partnerUpdated, globalParameterGroupNumberCallbacks,
                   parameterGroupNumberCallbacks, currentFrame, lastSend, constructedFrame,
                   eventLog, busloadVars, registryVars,
                   tableIndexesOutOfRange, emptiedSlotsDereferenced>>
    /\ UNCHANGED <<hwVars, acVars>>

\* Callbacks registered once or twice, and the bus.
RegistrationNext ==
    \/ add_global_parameter_group_number_callback(ApplicationPGN)
    \/ add_global_parameter_group_number_callback_again(ApplicationPGN)
    \/ add_any_control_function_parameter_group_number_callback(ApplicationPGN)
    \/ add_any_control_function_parameter_group_number_callback_again(ApplicationPGN)
    \/ \E net \in BusNetworks, frame \in BusTrafficFrames : BusTraffic(net, frame)
    \/ \E net \in BusNetworks : ReceiveFrame(net)
    \/ UpdateNetwork

\* ------------------------------------------- update(), step by step
\* The registries whose callbacks are invoked under a mutex of their own.
Registries == {"protocol", "anyControlFunction"}

MutexOf(registry) ==
    IF registry = "protocol" THEN "protocolPGNCallbacksMutex"
    ELSE "anyControlFunctionCallbacksMutex"

CallbacksOf(registry) ==
    IF registry = "protocol" THEN protocolPGNCallbacks
    ELSE anyControlFunctionParameterGroupNumberCallbacks

\* The test of the registry's loop for one callback and the current message.
CallbackMatches(registry, parameterGroupNumber, currentMessage) ==
    /\ parameterGroupNumber = get_parameter_group_number(currentMessage.identifier)
    /\ IF registry = "anyControlFunction" /\ currentMessage.destination # NoCF
       THEN controlFunctions[currentMessage.destination].type = "Internal"
       ELSE TRUE

StepUnchanged ==
    <<framesReceived, lastClaim, busClaims, namesSeen, busloadVars, hwVars, acVars>>

NMStateUnchanged ==
    <<controlFunctionTable, inactiveControlFunctions, controlFunctions,
      partneredControlFunctionList, partnerInitialized, anyPartnerNeedsInitializing,
      receiveMessageList, initialized, stateMachine, globalParameterGroupNumberCallbacks,
      anyControlFunctionParameterGroupNumberCallbacks, parameterGroupNumberCallbacks,
      currentFrame, lastSend, constructedFrame, tableIndexesOutOfRange,
      emptiedSlotsDereferenced>>

\* add_protocol_parameter_group_number_callback called by an application
\* thread: under the registry's mutex, a callback already there is refused.
add_protocol_parameter_group_number_callback(parameterGroupNumber) ==
    /\ ~nmCrashed
    /\ registryMutex.protocolPGNCallbacksMutex = "free"
    /\ parameterGroupNumber \notin SeqToSet(protocolPGNCallbacks)
    /\ protocolPGNCallbacks' = Append(protocolPGNCallbacks, parameterGroupNumber)
    /\ UNCHANGED <<NMStateUnchanged, StepUnchanged, nmCrashed, updatedSinceFrame,
                   partnerUpdated, eventLog, registryMutex, updateCall>>

\* update(): initialize() and update_new_partners(); process_rx_messages()
\* comes next.
update_begin(net) ==
    /\ ~nmCrashed
    /\ updateCall.pc = "idle"
    /\ updateCall' = [NoUpdate EXCEPT !.pc = "process_rx_messages", !.network = net]
    /\ partnerUpdated' = [p \in PartnerIds |->
                            partnerUpdated[p] \/ (controlFunctions[p].network = net)]
    /\ \E crash \in BOOLEAN :
          Finish(update_new_partners(initialize(NMState, net), net), crash)
    /\ UNCHANGED <<StepUnchanged, updatedSinceFrame, protocolPGNCallbacks, registryMutex>>

\* process_rx_messages(): the next message is taken from the queue and
\* update_address_table(message) runs; the protocol callbacks come next.
get_next_can_message_from_rx_queue ==
    /\ ~nmCrashed
    /\ updateCall.pc = "process_rx_messages"
    /\ receiveMessageList[updateCall.network] # <<>>
    /\ LET net == updateCall.network
           currentMessage == Head(receiveMessageList[net])
           s1 == [NMState EXCEPT !.rxq[net] = Tail(@)]
       IN  /\ updateCall' = [updateCall EXCEPT !.pc = "lock", !.registry = "protocol",
                                               !.message = currentMessage]
           /\ \E crash \in BOOLEAN :
                 Finish(update_address_table_message(s1, net, currentMessage), crash)
    /\ UNCHANGED <<StepUnchanged, updatedSinceFrame, partnerUpdated, protocolPGNCallbacks,
                   registryMutex>>

\* process_protocol_pgn_callbacks / process_any_control_function_pgn_callbacks:
\* the lock_guard on the registry's mutex is taken for the whole loop.  The
\* address claim machines are the first listeners of the protocol registry.
process_pgn_callbacks_lock ==
    /\ ~nmCrashed
    /\ updateCall.pc = "lock"
    /\ registryMutex[MutexOf(updateCall.registry)] = "free"
    /\ registryMutex' = [registryMutex EXCEPT ![MutexOf(updateCall.registry)] = "update"]
    /\ updateCall' = [updateCall EXCEPT !.pc = "loop", !.index = 1]
    /\ IF updateCall.registry = "protocol"
       THEN Finish(process_protocol_pgn_callbacks(NMState, updateCall.network,
                                                  updateCall.message), FALSE)
       ELSE UNCHANGED <<NMStateUnchanged, nmCrashed, eventLog, busloadVars>>
    /\ UNCHANGED <<StepUnchanged, updatedSinceFrame, partnerUpdated, protocolPGNCallbacks>>

\* The loop's test fails for the current callback.
process_pgn_callbacks_skip ==
    /\ ~nmCrashed
    /\ updateCall.pc = "loop"
    /\ updateCall.index <= Len(CallbacksOf(updateCall.registry))
    /\ ~CallbackMatches(updateCall.registry, CallbacksOf(updateCall.registry)[updateCall.index],
                        updateCall.message)
    /\ updateCall' = [updateCall EXCEPT !.index = @ + 1]
    /\ UNCHANGED <<NMStateUnchanged, StepUnchanged, nmCrashed, updatedSinceFrame,
                   partnerUpdated, eventLog, protocolPGNCallbacks, registryMutex>>

\* currentCallback.get_callback()(currentMessage, parent): the callback is
\* entered, inside the loop and so inside the scope of the lock_guard.
process_pgn_callbacks_invoke ==
    /\ ~nmCrashed
    /\ updateCall.pc = "loop"
    /\ updateCall.index <= Len(CallbacksOf(updateCall.registry))
    /\ CallbackMatches(updateCall.registry, CallbacksOf(updateCall.registry)[updateCall.index],
                       updateCall.message)
    /\ updateCall' = [updateCall EXCEPT !.pc = "callback"]
    /\ eventLog' = InvokeCallback(NMState, updateCall.registry, updateCall.message, NoCF,
                                  updateCall.index).log
    /\ UNCHANGED <<NMStateUnchanged, StepUnchanged, nmCrashed, updatedSinceFrame,
                   partnerUpdated, protocolPGNCallbacks, registryMutex>>

\* The callback returns without having called the network manager.
callback_returns ==
    /\ ~nmCrashed
    /\ updateCall.pc = "callback"
    /\ updateCall' = [updateCall EXCEPT !.pc = "loop", !.index = @ + 1]
    /\ UNCHANGED <<NMStateUnchanged, StepUnchanged, nmCrashed, updatedSinceFrame,
                   partnerUpdated, eventLog, protocolPGNCallbacks, registryMutex>>

\* What locking a std::mutex does to the thread that already owns it: the
\* behaviour is undefined; the thread waits for itself for ever, or lock()
\* throws and the exception leaves update() and ends the process.
RelockOutcomes == {"deadlock", "terminate"}

\* The callback calls add_ or remove_..._parameter_group_number_callback of
\* the registry it was invoked from: the call begins with a lock_guard on the
\* registry's mutex, which the calling thread holds for its loop.
callback_changes_registry(outcome) ==
    /\ ~nmCrashed
    /\ updateCall.pc = "callback"
    /\ registryMutex[MutexOf(updateCall.registry)] = "update"
    /\ updateCall' = [updateCall EXCEPT !.pc = IF outcome = "deadlock" THEN "blocked" ELSE @]
    /\ nmCrashed' = (outcome = "terminate")
    /\ UNCHANGED <<NMStateUnchanged, StepUnchanged, updatedSinceFrame, partnerUpdated,
                   eventLog, protocolPGNCallbacks, registryMutex>>

\* The loop is over: the lock_guard goes out of scope.  After the protocol
\* registry comes the any-control-function registry, after that the global
\* and partner callbacks.
process_pgn_callbacks_unlock ==
    /\ ~nmCrashed
    /\ updateCall.pc = "loop"
    /\ updateCall.index > Len(CallbacksOf(updateCall.registry))
    /\ registryMutex' = [registryMutex EXCEPT ![MutexOf(updateCall.registry)] = "free"]
    /\ updateCall' =
          IF updateCall.registry = "protocol"
          THEN [updateCall EXCEPT !.pc = "lock", !.registry = "anyControlFunction", !.index = 0]
          ELSE [updateCall EXCEPT !.pc = "global_and_partner", !.registry = "none",
                                  !.index = 0]
    /\ UNCHANGED <<NMStateUnchanged, StepUnchanged, nmCrashed, updatedSinceFrame,
                   partnerUpdated, eventLog, protocolPGNCallbacks>>

\* The last call of the loop body of process_rx_messages().
process_global_and_partner_callbacks ==
    /\ ~nmCrashed
    /\ updateCall.pc = "global_and_partner"
    /\ updateCall' = [updateCall EXCEPT !.pc = "process_rx_messages", !.message = NoMessage]
    /\ Finish(process_can_message_for_global_and_partner_callbacks(
                  NMState, updateCall.network, updateCall.message), FALSE)
    /\ UNCHANGED <<StepUnchanged, updatedSinceFrame, partnerUpdated, protocolPGNCallbacks,
                   registryMutex>>

\* The queue is empty: update_address_claiming(), the loop over the Internal
\* CFs, and update() returns.
update_end ==
    /\ ~nmCrashed
    /\ updateCall.pc = "process_rx_messages"
    /\ receiveMessageList[updateCall.network] = <<>>
    /\ updateCall' = NoUpdate
    /\ updatedSinceFrame' = [updatedSinceFrame EXCEPT ![updateCall.network] = TRUE]
    /\ \E crash \in BOOLEAN :
          Finish(update_internal_control_functions(update_address_claiming(NMState),
                                                   updateCall.network), crash)
    /\ UNCHANGED <<StepUnchanged, partnerUpdated, protocolPGNCallbacks, registryMutex>>

\* update() followed step by step, with callbacks of the two registries that
\* return at once or change their registry, and the traffic of the bus.
ReentrantNext ==
    \/ \E net \in BusNetworks, frame \in BusTrafficFrames : BusTraffic(net, frame)
    \/ \E net \in BusNetworks : ReceiveFrame(net)
    \/ add_protocol_parameter_group_number_callback(ApplicationPGN)
    \/ add_any_control_function_parameter_group_number_callback(ApplicationPGN)
    \/ \E net \in BusNetworks : update_begin(net)
    \/ get_next_can_message_from_rx_queue
    \/ process_pgn_callbacks_lock
    \/ process_pgn_callbacks_skip
    \/ process_pgn_callbacks_invoke
    \/ callback_returns
    \/ \E outcome \in RelockOutcomes : callback_changes_registry(outcome)
    \/ process_pgn_callbacks_unlock
    \/ process_global_and_partner_callbacks
    \/ update_end

\* ------------------------------------------------------------ transmit path
ABSOLUTE_MAX_MESSAGE_LENGTH == 1785
DiagnosticMessage1 == 65226

get_address_valid(address) ==
    address # BROADCAST_CAN_ADDRESS /\ address # NULL_CAN_ADDRESS

NoSend == [called |-> FALSE]

\* The test send_can_message makes before it does anything (the data buffer
\* is given).
source_may_be_anything(s, pgn, dataLength, source) ==
    dataLength > 0 /\ dataLength <= ABSOLUTE_MAX_MESSAGE_LENGTH

send_can_message_validate(s, pgn, dataLength, source) ==
    /\ dataLength > 0
    /\ dataLength <= ABSOLUTE_MAX_MESSAGE_LENGTH
    /\ source # NoCF
    /\ (pgn = AddressClaim \/ get_address_valid(s.cf[source].address))

\* send_can_message with a completion callback or without one.  A registered
\* transport protocol may take a message of more than 8 bytes; the channel may
\* refuse the frame (send_can_message_frame_to_hardware returns false).
send_can_message(s, pgn, dataLength, source, destination, callback, protocolAccepts, hardwareAccepts) ==
    LET sourceAddress == IF source = NoCF THEN NULL_CAN_ADDRESS ELSE s.cf[source].address
        call == [called |-> TRUE, parameterGroupNumber |-> pgn, dataLength |-> dataLength,
                 source |-> source, sourceAddress |-> sourceAddress,
                 destination |-> destination, callback |-> callback,
                 viaProtocol |-> FALSE, retVal |-> FALSE, enqueued |-> <<>>,
                 transmitComplete |-> <<>>]
        valid == send_can_message_validate(s, pgn, dataLength, source)
        net == IF source = NoCF THEN 1 ELSE s.cf[source].network
        destAddress == IF destination = NoCF THEN BROADCAST_CAN_ADDRESS
                       ELSE s.cf[destination].address
        s1 == IF hardwareAccepts /\ (destination = NoCF \/ get_address_valid(destAddress))
              THEN send_can_message_raw(s, net, sourceAddress, destAddress, pgn, 6,
                                        <<1, 2, 3, 4, 5, 6, 7, 8>>, dataLength)
              ELSE s
        retVal == s1.sent[net] # s.sent[net]
    IN  IF ~valid THEN [s EXCEPT !.send = call]
        ELSE IF protocolAccepts
        THEN [s EXCEPT !.send = [call EXCEPT !.viaProtocol = TRUE, !.retVal = TRUE]]
        ELSE [s1 EXCEPT !.send = [call EXCEPT !.retVal = retVal,
                                              !.enqueued = s1.sent[net],
                                              !.transmitComplete =
                                                IF retVal /\ callback THEN <<retVal>> ELSE <<>>]]

SendPGNs == {AddressClaim, ApplicationPGN, DiagnosticMessage1}
SendLengths == {CAN_DATA_LENGTH, ABSOLUTE_MAX_MESSAGE_LENGTH, ABSOLUTE_MAX_MESSAGE_LENGTH + 1}
SendSources == {NoCF, 1}
SendDestinations == {NoCF} \cup PartnerIds

\* The application calls send_can_message; lastSend keeps the frame the call
\* has queued for the channel of the network.  A run follows one call.
SendCanMessage(pgn, dataLength, source, destination, callback, protocolAccepts, hardwareAccepts) ==
    /\ ~nmCrashed
    /\ ~lastSend.called
    /\ source # NoCF => controlFunctions[source].type = "Internal"
    /\ destination # NoCF => controlFunctions[destination].type = "Partnered"
    /\ protocolAccepts => dataLength > CAN_DATA_LENGTH
    /\ LET s == send_can_message(NMState, pgn, dataLength, source, destination, callback,
                                 protocolAccepts, hardwareAccepts)
       IN  Outcome(s, FALSE)
    /\ UNCHANGED <<framesReceived, lastClaim, updatedSinceFrame, busClaims, namesSeen,
                   partnerUpdated>>
    /\ UNCHANGED <<hwVars, acVars>>

\* One Internal CF on network 1, a partner a device may bind, and the sends.
SendNext ==
    \/ \E name \in {<<1, 0, 0, 0, 0, 0, 0, 128>>} : CreateInternal(1, name, 28)
    \/ TimerExpires(1)
    \/ \E net \in BusNetworks : ReceiveFrame(net)
    \/ UpdateNetwork
    \/ \E p \in PartnerIds : CreatePartner(p)
    \/ \E net \in BusNetworks : BusTraffic(net, AddressClaimFrame(NameVT1, 39))
    \/ \E pgn \in SendPGNs, dataLength \in SendLengths, source \in SendSources,
          destination \in SendDestinations, callback, protocolAccepts, hardwareAccepts \in BOOLEAN :
            SendCanMessage(pgn, dataLength, source, destination, callback,
                           protocolAccepts, hardwareAccepts)


\* -------------------------------------------------------- commanded address
CommandedAddress == 65240
COMMANDED_ADDRESS_LENGTH == 9

\* InternalControlFunction::process_commanded_address: the machine adopts the
\* commanded address and claims again.
process_commanded_address(s, c, commandedAddress) ==
    [s EXCEPT !.sm[c] = [@ EXCEPT !.state = "Claiming", !.targetAddress = commandedAddress,
                                  !.expired = FALSE]]

RECURSIVE process_can_message_for_commanded_address_from(_, _, _, _)
process_can_message_for_commanded_address_from(s, net, message, i) ==
    IF i > Len(internalControlFunctionList) THEN s
    ELSE LET currentICF == internalControlFunctionList[i]
         IN  process_can_message_for_commanded_address_from(
                IF /\ s.cf[currentICF].network = net
                   /\ s.cf[currentICF].NAME = SubSeq(message.data, 1, 8)
                THEN process_commanded_address(s, currentICF, message.data[9])
                ELSE s,
                net, message, i + 1)

process_can_message_for_commanded_address(s, net, message) ==
    IF /\ message.destination = NoCF
       /\ get_parameter_group_number(message.identifier) = CommandedAddress
       /\ message.dataLength = COMMANDED_ADDRESS_LENGTH
    THEN process_can_message_for_commanded_address_from(s, net, message, 1)
    ELSE s

protocol_message_callback(s, net, message) ==
    process_can_message_for_commanded_address(
        process_can_message_for_global_and_partner_callbacks(s, net, message), net, message)

CommandedNames == {<<1, 0, 0, 0, 0, 0, 0, 128>>, <<2, 0, 0, 0, 0, 0, 0, 128>>}
CommandedAddresses == {29}
CommandingSource == 39

\* A transport protocol has reassembled a commanded address message from the
\* device at CommandingSource, sent to all or to destination, and hands it to
\* the network.
ProtocolMessage(net, destination, targetNAME, newAddress) ==
    /\ ~nmCrashed
    /\ framesReceived < MaxBusTraffic
    /\ framesReceived' = framesReceived + 1
    /\ destination # NoCF =>
        /\ controlFunctions[destination].network = net
        /\ get_control_function(NMState, net, controlFunctions[destination].address) = destination
    /\ LET message == [identifier |-> construct_identifier(CommandingSource,
                                        BROADCAST_CAN_ADDRESS, CommandedAddress, 6),
                       source |-> get_control_function(NMState, net, CommandingSource),
                       destination |-> destination,
                       data |-> targetNAME \o <<newAddress>>,
                       dataLength |-> COMMANDED_ADDRESS_LENGTH,
                       frame |-> 0]
           s == [NMState EXCEPT !.log = Append(@, [kind |-> "protocol_message_callback",
                                                   frame |-> 0, owner |-> NoCF, index |-> net,
                                                   destination |-> destination,
                                                   data |-> message.data])]
       IN  Outcome(protocol_message_callback(s, net, message), FALSE)
    /\ UNCHANGED <<lastClaim, updatedSinceFrame, busClaims, namesSeen, partnerUpdated>>
    /\ UNCHANGED <<hwVars, acVars>>

\* Two Internal CFs on networks with separate buses and the commanded address
\* messages.
CommandedNext ==
    \/ \E c \in InternalIds : CreateInternal(c, <<c, 0, 0, 0, 0, 0, 0, 128>>, 28)
    \/ \E c \in InternalIds : TimerExpires(c)
    \/ UpdateNetwork
    \/ \E net \in BusNetworks, destination \in {NoCF} \cup InternalIds,
          targetNAME \in CommandedNames, newAddress \in CommandedAddresses :
            ProtocolMessage(net, destination, targetNAME, newAddress)


\* ------------------------------------------------------- identifier codec
NoFrame == [built |-> FALSE]

ConstructPriorities == 0 .. 7
ConstructSources == {0, 28, 255}
\* Broadcast-form PGNs (PDU format 0xF0 and above, sent to the global address).
ConstructBroadcastPGNs == {61444, 65265, 130801}
\* Destination-specific PGNs (PDU format below 0xF0) and their destinations.
ConstructSpecificPGNs == {0, 59904, 61184, 126720}
ConstructDestinations == {5, 28, BROADCAST_CAN_ADDRESS}

\* construct_frame() called with eight bytes of data, and the identifier of
\* the frame it returns read back through the CANIdentifier getters.
ConstructFrame(priority, parameterGroupNumber, sourceAddress, destAddress) ==
    LET identifier == construct_identifier(sourceAddress, destAddress, parameterGroupNumber,
                                           priority)
        s == [NMState EXCEPT !.built =
                [built |-> TRUE, priority |-> priority,
                 parameterGroupNumber |-> parameterGroupNumber,
                 sourceAddress |-> sourceAddress, destAddress |-> destAddress,
                 identifier |-> identifier,
                 decoded |-> [priority |-> get_priority(identifier),
                              parameterGroupNumber |-> get_parameter_group_number(identifier),
                              sourceAddress |-> get_source_address(identifier),
                              destAddress |-> get_destination_address(identifier)]]]
    IN  /\ ~nmCrashed
        /\ Outcome(s, FALSE)
        /\ UNCHANGED <<framesReceived, lastClaim, updatedSinceFrame, busClaims, namesSeen,
                       partnerUpdated>>
        /\ UNCHANGED <<hwVars, acVars>>

IdentifierNext ==
    \/ \E priority \in ConstructPriorities, parameterGroupNumber \in ConstructBroadcastPGNs,
          sourceAddress \in ConstructSources :
            ConstructFrame(priority, parameterGroupNumber, sourceAddress, BROADCAST_CAN_ADDRESS)
    \/ \E priority \in ConstructPriorities, parameterGroupNumber \in ConstructSpecificPGNs,
          sourceAddress \in ConstructSources, destAddress \in ConstructDestinations :
            ConstructFrame(priority, parameterGroupNumber, sourceAddress, destAddress)


\* ------------------------------------------------------------------ busload
ISOBUS_BAUD_RATE_BPS == 250000
BUSLOAD_UPDATE_FREQUENCY_MS == 100
BUSLOAD_SAMPLE_WINDOW_MS == 10000
\* Periods of BUSLOAD_UPDATE_FREQUENCY_MS the clock runs for.
MaxBusloadPeriods == 4
\* What a 250 kbit/s bus can carry in one period.
BitsPerPeriod == (ISOBUS_BAUD_RATE_BPS * BUSLOAD_UPDATE_FREQUENCY_MS) \div 1000
\* Bits of the frames one period carries: an idle, a half and a fully loaded bus.
PeriodLoads == {0, BitsPerPeriod \div 2, BitsPerPeriod}

RECURSIVE accumulate(_)
accumulate(history) ==
    IF history = <<>> THEN 0 ELSE Head(history) + accumulate(Tail(history))

\* The percentage get_estimated_busload() returns, rounded down: the bits of
\* the history over the bits the bus carries in the time the history stands
\* for (its size times BUSLOAD_UPDATE_FREQUENCY_MS), times 100.
get_estimated_busload ==
    LET bitsInAccumulatorWindow == Len(busloadMessageBitsHistory) * BitsPerPeriod
        totalBitCount == accumulate(busloadMessageBitsHistory)
    IN  IF bitsInAccumulatorWindow # 0
        THEN (totalBitCount * 100) \div bitsInAccumulatorWindow
        ELSE 0

update_busload(numberOfBitsProcessed) ==
    currentBusloadBitAccumulator' = currentBusloadBitAccumulator + numberOfBitsProcessed

RECURSIVE pop_front_while_over(_)
pop_front_while_over(history) ==
    IF Len(history) > (BUSLOAD_SAMPLE_WINDOW_MS \div BUSLOAD_UPDATE_FREQUENCY_MS)
    THEN pop_front_while_over(Tail(history))
    ELSE history

time_expired_ms(timestamp, timeout) == (timestamp_ms - timestamp) >= timeout

BusloadUnchangedVars ==
    <<controlFunctionTable, inactiveControlFunctions, controlFunctions,
      partneredControlFunctionList, partnerInitialized, anyPartnerNeedsInitializing,
      receiveMessageList, initialized, stateMachine, nmCrashed, framesReceived, lastClaim,
      updatedSinceFrame, busClaims, namesSeen, partnerUpdated,
      globalParameterGroupNumberCallbacks, anyControlFunctionParameterGroupNumberCallbacks,
      parameterGroupNumberCallbacks, currentFrame, lastSend, constructedFrame, eventLog,
      registryVars, tableIndexesOutOfRange, emptiedSlotsDereferenced,
      hwVars, acVars>>

\* One period passes in which the network processes the frames the bus
\* carries, received (process_receive_can_message_frame) and transmitted
\* (process_transmitted_can_message_frame): each frame's bits go to
\* update_busload.
ProcessFramesOfPeriod(numberOfBitsProcessed) ==
    /\ ~nmCrashed
    /\ timestamp_ms < MaxBusloadPeriods * BUSLOAD_UPDATE_FREQUENCY_MS
    /\ timestamp_ms' = timestamp_ms + BUSLOAD_UPDATE_FREQUENCY_MS
    /\ update_busload(numberOfBitsProcessed)
    /\ UNCHANGED <<busloadMessageBitsHistory, busloadUpdateTimestamp_ms>>
    /\ UNCHANGED BusloadUnchangedVars

\* update() reaching update_busload_history().
update_busload_history ==
    /\ ~nmCrashed
    /\ IF time_expired_ms(busloadUpdateTimestamp_ms, BUSLOAD_UPDATE_FREQUENCY_MS)
       THEN /\ busloadMessageBitsHistory' =
                   pop_front_while_over(Append(busloadMessageBitsHistory,
                                               currentBusloadBitAccumulator))
            /\ currentBusloadBitAccumulator' = 0
            /\ busloadUpdateTimestamp_ms' = timestamp_ms
       ELSE UNCHANGED <<busloadMessageBitsHistory, currentBusloadBitAccumulator,
                        busloadUpdateTimestamp_ms>>
    /\ UNCHANGED timestamp_ms
    /\ UNCHANGED BusloadUnchangedVars

BusloadNext ==
    \/ \E numberOfBitsProcessed \in PeriodLoads :
          ProcessFramesOfPeriod(numberOfBitsProcessed)
    \/ update_busload_history


\* ======================================================= hardware interface
\* Frames handed to transmit_can_frame() and frames the buses deliver.
MaxTxFrames == 2
MaxBusFrames == 1
\* Application threads calling transmit_can_frame() concurrently.
TransmitCallers == {1, 2}
\* Networks that are given a channel of the hardware interface.
HWNetworks == {1}

NoChannel == [assigned |-> FALSE, frameHandler |-> FALSE, messagesToBeTransmitted |-> <<>>,
              receivedMessages |-> <<>>, receiveMessageThread |-> "none"]
\* std::make_unique<CANHardware>()
NewChannel == [NoChannel EXCEPT !.assigned = TRUE]
\* Stage 2 has fired no tick event and has updated no network; stage 3 has
\* had no write_frame() return false.
NoTick ==
    [on_periodic_tick |-> 0, periodic_update_from_hardware |-> [n \in HWNetworks |-> 0],
     write_frame_failed |-> FALSE]
NoCall == [pc |-> "idle", network |-> 0, frame |-> 0, dangling |-> FALSE]
Idle == [pc |-> "idle", network |-> 0, todo |-> {}]

Assigned(net) == hardwareChannels[net].assigned
\* A thread object that is joinable: started and not yet joined.
Joinable(t) == t # "none"

\* The interface lets go of the channel's transport: the shared_ptr is
\* overwritten, reset or destroyed with the channel.  A transport that is
\* still open at that moment was not closed by the interface.
drop_transport(net) ==
    unclosedTransports' =
        IF hardwareChannels[net].frameHandler /\ driverValid[net]
        THEN unclosedTransports \cup {net}
        ELSE unclosedTransports

\* The control thread can make a lifecycle call that takes hardwareChannelsMutex.
CanLock == ~hwCrashed /\ control.pc = "idle" /\ hardwareChannelsMutex = "free"

\* assign_can_channel_frame_handler(network, canDriver).  open() may fail and
\* leave the transport invalid.  Assigning over a joinable receive thread
\* destroys that std::thread, which calls std::terminate.
assign_can_channel_frame_handler(net, opens) ==
    /\ CanLock
    /\ LET ch == IF Assigned(net) THEN hardwareChannels[net] ELSE NewChannel
           terminate == threadsStarted /\ opens /\ Joinable(ch.receiveMessageThread)
       IN  /\ hardwareChannels' = [hardwareChannels EXCEPT ![net] =
                  [ch EXCEPT !.frameHandler = TRUE,
                             !.receiveMessageThread =
                                 IF threadsStarted /\ opens THEN "starting" ELSE @]]
           /\ driverValid' = [driverValid EXCEPT ![net] =
                                 IF threadsStarted THEN opens ELSE @]
           /\ hwCrashed' = terminate
    /\ drop_transport(net)
    /\ stoppedWithHandler' = [stoppedWithHandler EXCEPT ![net] = FALSE]
    /\ lockedTransportCalls' = IF threadsStarted THEN lockedTransportCalls \cup {"open"}
                               ELSE lockedTransportCalls
    /\ UNCHANGED <<nmVars, acVars, threadsStarted, updateThread, wakeupThread, stackNeedsUpdate,
                   hardwareChannelsMutex, control, transmitCall, nextFrame, accepted,
                   written, droppedOnStop, droppedOnUnassign, busFrames, delivered, wakeup>>

\* hardwareChannels.erase(network): the channel and both of its queues are
\* destroyed; a transmit_can_frame() that already holds a reference to the
\* channel is left with a dangling reference.
Erase(net) ==
    /\ hardwareChannels' = [hardwareChannels EXCEPT ![net] = NoChannel]
    /\ drop_transport(net)
    /\ droppedOnUnassign' = droppedOnUnassign \cup
                                SeqToSet(hardwareChannels[net].messagesToBeTransmitted)
    /\ transmitCall' = [t \in TransmitCallers |->
                           IF transmitCall[t].pc = "push" /\ transmitCall[t].network = net
                           THEN [transmitCall[t] EXCEPT !.dangling = TRUE]
                           ELSE transmitCall[t]]

\* unassign_can_channel_frame_handler(network) up to the join of the receive
\* thread.  With the threads stopped the channel is erased at once.
unassign_can_channel_frame_handler(net) ==
    /\ CanLock
    /\ Assigned(net)
    /\ hardwareChannels[net].frameHandler
    /\ IF threadsStarted
       THEN /\ driverValid' = [driverValid EXCEPT ![net] = FALSE]
            /\ hardwareChannelsMutex' = "control"
            /\ control' = [pc |-> "unassign_join", network |-> net, todo |-> {}]
            /\ UNCHANGED <<hardwareChannels, droppedOnUnassign, transmitCall,
                           unclosedTransports>>
       ELSE /\ Erase(net)
            /\ UNCHANGED <<driverValid, hardwareChannelsMutex, control>>
    /\ stoppedWithHandler' = [stoppedWithHandler EXCEPT ![net] = FALSE]
    /\ lockedTransportCalls' = IF threadsStarted THEN lockedTransportCalls \cup {"close"}
                               ELSE lockedTransportCalls
    /\ UNCHANGED <<nmVars, acVars, threadsStarted, updateThread, wakeupThread, stackNeedsUpdate, hwCrashed,
                   nextFrame, accepted, written, droppedOnStop, busFrames, delivered, wakeup>>

\* receiveMessageThread->join() returns once the receive thread has left its
\* function (or there is no thread); then the channel is erased and the
\* mutex released.
unassign_join ==
    /\ ~hwCrashed
    /\ control.pc = "unassign_join"
    /\ hardwareChannels[control.network].receiveMessageThread \in {"none", "exited"}
    /\ Erase(control.network)
    /\ hardwareChannelsMutex' = "free"
    /\ control' = Idle
    /\ UNCHANGED <<nmVars, acVars, lockedTransportCalls,
                   threadsStarted, updateThread, wakeupThread, stackNeedsUpdate,
                   driverValid, hwCrashed, nextFrame, accepted, written, droppedOnStop,
                   busFrames, delivered, stoppedWithHandler, wakeup>>

\* start(): opens is the set of channels whose open() leaves a valid transport.
start(opens) ==
    /\ CanLock
    /\ ~threadsStarted
    /\ opens \subseteq {n \in HWNetworks : Assigned(n) /\ hardwareChannels[n].frameHandler}
    /\ updateThread' = "starting"
    /\ wakeupThread' = "starting"
    /\ threadsStarted' = TRUE
    /\ hardwareChannels' = [n \in HWNetworks |->
            IF n \in opens
            THEN [hardwareChannels[n] EXCEPT !.receiveMessageThread = "starting"]
            ELSE hardwareChannels[n]]
    /\ driverValid' = [n \in HWNetworks |->
            IF Assigned(n) /\ hardwareChannels[n].frameHandler
            THEN n \in opens ELSE driverValid[n]]
    /\ hwCrashed' = (\/ Joinable(updateThread) \/ Joinable(wakeupThread)
                     \/ \E n \in opens : Joinable(hardwareChannels[n].receiveMessageThread))
    /\ lockedTransportCalls' =
          IF \E n \in HWNetworks : Assigned(n) /\ hardwareChannels[n].frameHandler
          THEN lockedTransportCalls \cup {"open"} ELSE lockedTransportCalls
    /\ UNCHANGED <<nmVars, acVars, stackNeedsUpdate, hardwareChannelsMutex, control, transmitCall, nextFrame,
                   accepted, written, droppedOnStop, droppedOnUnassign, busFrames, delivered,
                   stoppedWithHandler, unclosedTransports, wakeup>>

AssignedChannels == {n \in HWNetworks : Assigned(n)}

\* stop(): the started check and the first statement of stop_threads().
stop ==
    /\ ~hwCrashed
    /\ control.pc = "idle"
    /\ threadsStarted
    /\ threadsStarted' = FALSE
    /\ control' = [Idle EXCEPT !.pc = "stop_join_update"]
    /\ UNCHANGED <<nmVars, acVars, lockedTransportCalls,
                   hardwareChannels, updateThread, wakeupThread, stackNeedsUpdate,
                   hardwareChannelsMutex, driverValid, transmitCall, hwCrashed, nextFrame,
                   accepted, written, droppedOnStop, droppedOnUnassign, busFrames, delivered,
                   stoppedWithHandler, unclosedTransports, wakeup>>

\* stop_threads(): updateThread->join(); updateThread = nullptr.
stop_threads_join_update ==
    /\ ~hwCrashed
    /\ control.pc = "stop_join_update"
    /\ updateThread \in {"none", "exited"}
    /\ updateThread' = "none"
    /\ control' = [control EXCEPT !.pc = "stop_join_wakeup"]
    /\ UNCHANGED <<nmVars, acVars, lockedTransportCalls,
                   threadsStarted, hardwareChannels, wakeupThread, stackNeedsUpdate,
                   hardwareChannelsMutex, driverValid, transmitCall, hwCrashed, nextFrame,
                   accepted, written, droppedOnStop, droppedOnUnassign, busFrames, delivered,
                   stoppedWithHandler, unclosedTransports, wakeup>>

\* stop_threads(): wakeupThread->join(); wakeupThread = nullptr.
stop_threads_join_wakeup ==
    /\ ~hwCrashed
    /\ control.pc = "stop_join_wakeup"
    /\ wakeupThread \in {"none", "exited"}
    /\ wakeupThread' = "none"
    /\ control' = [pc |-> "stop_close", network |-> 0, todo |-> AssignedChannels]
    /\ UNCHANGED <<nmVars, acVars, lockedTransportCalls,
                   threadsStarted, hardwareChannels, updateThread, stackNeedsUpdate,
                   hardwareChannelsMutex, driverValid, transmitCall, hwCrashed, nextFrame,
                   accepted, written, droppedOnStop, droppedOnUnassign, busFrames, delivered,
                   stoppedWithHandler, unclosedTransports, wakeup>>

\* stop_threads(), one channel of the loop: frameHandler->close().
stop_threads_close(net) ==
    /\ ~hwCrashed
    /\ control.pc = "stop_close"
    /\ net \in control.todo
    /\ driverValid' = [driverValid EXCEPT ![net] =
                          IF hardwareChannels[net].frameHandler THEN FALSE ELSE @]
    /\ control' = [control EXCEPT !.pc = "stop_join_receive", !.network = net]
    /\ UNCHANGED <<nmVars, acVars, lockedTransportCalls,
                   threadsStarted, hardwareChannels, updateThread, wakeupThread,
                   stackNeedsUpdate, hardwareChannelsMutex, transmitCall, hwCrashed, nextFrame,
                   accepted, written, droppedOnStop, droppedOnUnassign, busFrames, delivered,
                   stoppedWithHandler, unclosedTransports, wakeup>>

\* stop_threads(), same channel: receiveMessageThread->join(); = nullptr.
stop_threads_join_receive ==
    /\ ~hwCrashed
    /\ control.pc = "stop_join_receive"
    /\ hardwareChannels[control.network].receiveMessageThread \in {"none", "exited"}
    /\ hardwareChannels' = [hardwareChannels EXCEPT
                               ![control.network].receiveMessageThread = "none"]
    /\ control' = [pc |-> "stop_close", network |-> 0,
                   todo |-> control.todo \ {control.network}]
    /\ UNCHANGED <<nmVars, acVars, lockedTransportCalls,
                   threadsStarted, updateThread, wakeupThread, stackNeedsUpdate,
                   hardwareChannelsMutex, driverValid, transmitCall, hwCrashed, nextFrame,
                   accepted, written, droppedOnStop, droppedOnUnassign, busFrames, delivered,
                   stoppedWithHandler, unclosedTransports, wakeup>>

\* stop(): stop_threads() has returned; hardwareChannelsMutex is taken.
stop_lock ==
    /\ ~hwCrashed
    /\ control.pc = "stop_close"
    /\ control.todo = {}
    /\ hardwareChannelsMutex = "free"
    /\ hardwareChannelsMutex' = "control"
    /\ control' = [pc |-> "stop_clear", network |-> 0, todo |-> AssignedChannels]
    /\ UNCHANGED <<nmVars, acVars, lockedTransportCalls,
                   threadsStarted, hardwareChannels, updateThread, wakeupThread,
                   stackNeedsUpdate, driverValid, transmitCall, hwCrashed, nextFrame,
                   accepted, written, droppedOnStop, droppedOnUnassign, busFrames, delivered,
                   stoppedWithHandler, unclosedTransports, wakeup>>

\* A stop() that clears the queues and leaves the transports assigned.
stop_clear_keeping_handler(net) ==
    /\ ~hwCrashed
    /\ control.pc = "stop_clear"
    /\ net \in control.todo
    /\ hardwareChannels' = [hardwareChannels EXCEPT ![net] =
            [@ EXCEPT !.messagesToBeTransmitted = <<>>, !.receivedMessages = <<>>]]
    /\ droppedOnStop' = droppedOnStop \cup
                            SeqToSet(hardwareChannels[net].messagesToBeTransmitted)
    /\ stoppedWithHandler' = [stoppedWithHandler EXCEPT ![net] =
                                 hardwareChannels[net].frameHandler]
    /\ UNCHANGED unclosedTransports
    /\ control' = [control EXCEPT !.todo = @ \ {net}]
    /\ UNCHANGED <<nmVars, acVars, lockedTransportCalls,
                   threadsStarted, updateThread, wakeupThread, stackNeedsUpdate,
                   hardwareChannelsMutex, driverValid, transmitCall, hwCrashed, nextFrame,
                   accepted, written, droppedOnUnassign, busFrames, delivered, wakeup>>

\* stop(), one channel of the loop: frameHandler = nullptr and both queues
\* cleared, each under its own mutex.
stop_clear(net) ==
    /\ ~hwCrashed
    /\ control.pc = "stop_clear"
    /\ net \in control.todo
    /\ hardwareChannels' = [hardwareChannels EXCEPT ![net] =
            [@ EXCEPT !.frameHandler = FALSE, !.messagesToBeTransmitted = <<>>,
                      !.receivedMessages = <<>>]]
    /\ droppedOnStop' = droppedOnStop \cup
                            SeqToSet(hardwareChannels[net].messagesToBeTransmitted)
    /\ stoppedWithHandler' = [stoppedWithHandler EXCEPT ![net] =
                                 hardwareChannels[net].frameHandler]
    /\ drop_transport(net)
    /\ control' = [control EXCEPT !.todo = @ \ {net}]
    /\ UNCHANGED <<nmVars, acVars, lockedTransportCalls,
                   threadsStarted, updateThread, wakeupThread, stackNeedsUpdate,
                   hardwareChannelsMutex, driverValid, transmitCall, hwCrashed, nextFrame,
                   accepted, written, droppedOnUnassign, busFrames, delivered, wakeup>>

\* stop(): the lock guard is released and the call returns true.
stop_return ==
    /\ ~hwCrashed
    /\ control.pc = "stop_clear"
    /\ control.todo = {}
    /\ hardwareChannelsMutex' = "free"
    /\ control' = Idle
    /\ UNCHANGED <<nmVars, acVars, lockedTransportCalls,
                   threadsStarted, hardwareChannels, updateThread, wakeupThread,
                   stackNeedsUpdate, driverValid, transmitCall, hwCrashed, nextFrame,
                   accepted, written, droppedOnStop, droppedOnUnassign, busFrames, delivered,
                   stoppedWithHandler, unclosedTransports, wakeup>>

\* transmit_can_frame(), the checks before the queue is touched: interface
\* started, channel present, handler assigned and valid.  No lock is held.
TransmitAccepts(net) ==
    /\ threadsStarted
    /\ Assigned(net)
    /\ hardwareChannels[net].frameHandler
    /\ driverValid[net]

\* The callers are interchangeable: a new call is made by the first caller
\* that is not inside transmit_can_frame().
transmit_can_frame(t, net) ==
    /\ ~hwCrashed
    /\ transmitCall[t].pc = "idle"
    /\ \A u \in TransmitCallers : u < t => transmitCall[u].pc # "idle"
    /\ nextFrame <= MaxTxFrames
    /\ TransmitAccepts(net)
    /\ transmitCall' = [transmitCall EXCEPT ![t] =
            [pc |-> "push", network |-> net, frame |-> nextFrame, dangling |-> FALSE]]
    /\ nextFrame' = nextFrame + 1
    /\ UNCHANGED <<nmVars, acVars, lockedTransportCalls,
                   threadsStarted, hardwareChannels, updateThread, wakeupThread,
                   stackNeedsUpdate, hardwareChannelsMutex, driverValid, control, hwCrashed,
                   accepted, written, droppedOnStop, droppedOnUnassign, busFrames, delivered,
                   stoppedWithHandler, unclosedTransports, wakeup>>

\* transmit_can_frame(): push_back under messagesToBeTransmittedMutex and
\* return true.  Through a dangling reference the push is undefined: the
\* frame goes into the destroyed channel or the process dies.
transmit_push(t, crash) ==
    /\ ~hwCrashed
    /\ transmitCall[t].pc = "push"
    /\ crash => transmitCall[t].dangling
    /\ LET net == transmitCall[t].network
           f == transmitCall[t].frame
       IN  /\ hardwareChannels' =
                 IF transmitCall[t].dangling THEN hardwareChannels
                 ELSE [hardwareChannels EXCEPT ![net].messagesToBeTransmitted = Append(@, f)]
           /\ accepted' = IF crash THEN accepted
                          ELSE [accepted EXCEPT ![net] = Append(@, f)]
           /\ droppedOnUnassign' =
                 IF transmitCall[t].dangling /\ ~crash THEN droppedOnUnassign \cup {f}
                 ELSE droppedOnUnassign
    /\ hwCrashed' = crash
    /\ transmitCall' = [transmitCall EXCEPT ![t] = NoCall]
    /\ UNCHANGED <<nmVars, acVars, lockedTransportCalls,
                   threadsStarted, updateThread, wakeupThread, stackNeedsUpdate,
                   hardwareChannelsMutex, driverValid, control, nextFrame, written,
                   droppedOnStop, busFrames, delivered, stoppedWithHandler, unclosedTransports, wakeup>>

\* update_thread_function(): the initial lock and unlock of the channel mutex.
update_thread_start ==
    /\ ~hwCrashed
    /\ updateThread = "starting"
    /\ hardwareChannelsMutex = "free"
    /\ updateThread' = "waiting"
    /\ UNCHANGED <<nmVars, acVars, lockedTransportCalls,
                   threadsStarted, hardwareChannels, wakeupThread, stackNeedsUpdate,
                   hardwareChannelsMutex, driverValid, control, transmitCall, hwCrashed,
                   nextFrame, accepted, written, droppedOnStop, droppedOnUnassign, busFrames,
                   delivered, stoppedWithHandler, unclosedTransports, wakeup>>

\* The loop test and the wait of at most a second: the thread goes on to the
\* stages or leaves its function.
update_thread_wake ==
    /\ ~hwCrashed
    /\ updateThread = "waiting"
    /\ updateThread' = IF threadsStarted THEN "stage1" ELSE "exited"
    /\ wakeup' = [wakeup EXCEPT !.write_frame_failed = FALSE]
    /\ UNCHANGED <<nmVars, acVars, lockedTransportCalls,
                   threadsStarted, hardwareChannels, wakeupThread, stackNeedsUpdate,
                   hardwareChannelsMutex, driverValid, control, transmitCall, hwCrashed,
                   nextFrame, accepted, written, droppedOnStop, droppedOnUnassign, busFrames,
                   delivered, stoppedWithHandler, unclosedTransports>>

\* Stage 1: under the channel mutex every receive queue is drained in order.
\* Stage 2: the tick flag is consumed (tick event and the networks' update()).
update_thread_stage1_stage2 ==
    /\ ~hwCrashed
    /\ updateThread = "stage1"
    /\ hardwareChannelsMutex = "free"
    /\ delivered' = [n \in HWNetworks |-> delivered[n] \o hardwareChannels[n].receivedMessages]
    /\ hardwareChannels' = [n \in HWNetworks |->
                               [hardwareChannels[n] EXCEPT !.receivedMessages = <<>>]]
    /\ stackNeedsUpdate' = FALSE
    /\ updateThread' = "stage3"
    /\ UNCHANGED <<nmVars, acVars, lockedTransportCalls,
                   threadsStarted, wakeupThread, hardwareChannelsMutex,
                   driverValid, control, transmitCall, hwCrashed, nextFrame, accepted,
                   written, droppedOnStop, droppedOnUnassign, busFrames, stoppedWithHandler, unclosedTransports, wakeup>>

\* Stage 1 alone: under the channel mutex every receive queue is drained in
\* order and each frame is handed to its network.
update_thread_stage1 ==
    /\ ~hwCrashed
    /\ updateThread = "stage1"
    /\ hardwareChannelsMutex = "free"
    /\ delivered' = [n \in HWNetworks |-> delivered[n] \o hardwareChannels[n].receivedMessages]
    /\ hardwareChannels' = [n \in HWNetworks |->
                               [hardwareChannels[n] EXCEPT !.receivedMessages = <<>>]]
    /\ wakeup' = NoTick
    /\ updateThread' = "stage2"
    /\ UNCHANGED <<nmVars, acVars, lockedTransportCalls,
                   threadsStarted, wakeupThread, stackNeedsUpdate,
                   hardwareChannelsMutex, driverValid, control, transmitCall, hwCrashed,
                   nextFrame, accepted, written, droppedOnStop, droppedOnUnassign, busFrames,
                   stoppedWithHandler, unclosedTransports>>

\* A stage 2 that drains the receive queues once more before the tick.
update_thread_stage2_draining ==
    /\ ~hwCrashed
    /\ updateThread = "stage2"
    /\ delivered' = [n \in HWNetworks |-> delivered[n] \o hardwareChannels[n].receivedMessages]
    /\ hardwareChannels' = [n \in HWNetworks |->
                               [hardwareChannels[n] EXCEPT !.receivedMessages = <<>>]]
    /\ IF stackNeedsUpdate
       THEN /\ stackNeedsUpdate' = FALSE
            /\ wakeup' = [wakeup EXCEPT
                              !.on_periodic_tick = 1,
                              !.periodic_update_from_hardware =
                                  [n \in HWNetworks |-> IF Assigned(n) THEN 1 ELSE 0]]
       ELSE UNCHANGED <<stackNeedsUpdate, wakeup>>
    /\ updateThread' = "stage3"
    /\ UNCHANGED <<nmVars, acVars, lockedTransportCalls,
                   threadsStarted, wakeupThread, hardwareChannelsMutex,
                   driverValid, control, transmitCall, hwCrashed, nextFrame, accepted,
                   written, droppedOnStop, droppedOnUnassign, busFrames, stoppedWithHandler,
                   unclosedTransports>>

\* Stage 2 alone: if the tick flag is set it is cleared, the tick event is
\* fired and periodic_update_from_hardware runs once for every channel of the
\* table.  No lock is held; the receive queues are not touched.
update_thread_stage2 ==
    /\ ~hwCrashed
    /\ updateThread = "stage2"
    /\ IF stackNeedsUpdate
       THEN /\ stackNeedsUpdate' = FALSE
            /\ wakeup' = [wakeup EXCEPT
                              !.on_periodic_tick = 1,
                              !.periodic_update_from_hardware =
                                  [n \in HWNetworks |-> IF Assigned(n) THEN 1 ELSE 0]]
       ELSE UNCHANGED <<stackNeedsUpdate, wakeup>>
    /\ updateThread' = "stage3"
    /\ UNCHANGED <<nmVars, acVars, lockedTransportCalls,
                   threadsStarted, hardwareChannels, wakeupThread,
                   hardwareChannelsMutex, driverValid, control, transmitCall, hwCrashed,
                   nextFrame, accepted, written, droppedOnStop, droppedOnUnassign, busFrames,
                   delivered, stoppedWithHandler, unclosedTransports>>

\* A stage 3 that serves the queue from its tail.
drain_from_tail(queue, k) ==
    [wrote |-> [i \in 1 .. k |-> queue[Len(queue) + 1 - i]],
     left |-> SubSeq(queue, 1, Len(queue) - k)]

\* A stage 3 that pops the frame whose write_frame() failed.
drain_dropping_failed(queue, k) ==
    [wrote |-> SubSeq(queue, 1, k), left |-> SubSeq(queue, k + 2, Len(queue))]

\* Stage 3, one channel: the queue is written from its head; a frame leaves
\* the queue only after write_frame() took it, and the first failed write
\* ends the channel's turn.  k is the count of writes that succeed.
drain_transmit_queue(queue, k) ==
    [wrote |-> SubSeq(queue, 1, k), left |-> SubSeq(queue, k + 1, Len(queue))]

\* write_frame() can succeed only on an assigned, open transport.
CanWrite(net) == hardwareChannels[net].frameHandler /\ driverValid[net]

update_thread_stage3 ==
    /\ ~hwCrashed
    /\ updateThread = "stage3"
    /\ hardwareChannelsMutex = "free"
    /\ \E k \in [HWNetworks -> 0 .. MaxTxFrames] :
          /\ \A n \in HWNetworks :
                /\ k[n] <= Len(hardwareChannels[n].messagesToBeTransmitted)
                /\ k[n] > 0 => CanWrite(n)
          /\ written' = [n \in HWNetworks |-> written[n] \o
                drain_transmit_queue(hardwareChannels[n].messagesToBeTransmitted, k[n]).wrote]
          /\ hardwareChannels' = [n \in HWNetworks |->
                [hardwareChannels[n] EXCEPT !.messagesToBeTransmitted =
                    drain_transmit_queue(@, k[n]).left]]
          /\ wakeup' = [wakeup EXCEPT !.write_frame_failed =
                \E n \in HWNetworks :
                    /\ k[n] < Len(hardwareChannels[n].messagesToBeTransmitted)
                    /\ hardwareChannels[n].frameHandler]
    /\ updateThread' = "waiting"
    /\ lockedTransportCalls' =
          IF \E n \in HWNetworks : /\ hardwareChannels[n].messagesToBeTransmitted # <<>>
                                   /\ hardwareChannels[n].frameHandler
          THEN lockedTransportCalls \cup {"write_frame"} ELSE lockedTransportCalls
    /\ UNCHANGED <<nmVars, acVars, threadsStarted, wakeupThread, stackNeedsUpdate, hardwareChannelsMutex,
                   driverValid, control, transmitCall, hwCrashed, nextFrame, accepted,
                   droppedOnStop, droppedOnUnassign, busFrames, delivered, stoppedWithHandler,
                   unclosedTransports>>

\* periodic_update_function(): the initial lock and unlock.
periodic_update_start ==
    /\ ~hwCrashed
    /\ wakeupThread = "starting"
    /\ hardwareChannelsMutex = "free"
    /\ wakeupThread' = "running"
    /\ UNCHANGED <<nmVars, acVars, lockedTransportCalls,
                   threadsStarted, hardwareChannels, updateThread, stackNeedsUpdate,
                   hardwareChannelsMutex, driverValid, control, transmitCall, hwCrashed,
                   nextFrame, accepted, written, droppedOnStop, droppedOnUnassign, busFrames,
                   delivered, stoppedWithHandler, unclosedTransports, wakeup>>

\* One turn of the tick loop, or its end once the threads are stopped.
periodic_update_function ==
    /\ ~hwCrashed
    /\ wakeupThread = "running"
    /\ IF threadsStarted
       THEN stackNeedsUpdate' = TRUE /\ UNCHANGED wakeupThread
       ELSE wakeupThread' = "exited" /\ UNCHANGED stackNeedsUpdate
    /\ UNCHANGED <<nmVars, acVars, lockedTransportCalls,
                   threadsStarted, hardwareChannels, updateThread, hardwareChannelsMutex,
                   driverValid, control, transmitCall, hwCrashed, nextFrame, accepted,
                   written, droppedOnStop, droppedOnUnassign, busFrames, delivered,
                   stoppedWithHandler, unclosedTransports, wakeup>>

\* receive_can_frame_thread_function(): the initial lock and unlock.
receive_thread_start(net) ==
    /\ ~hwCrashed
    /\ hardwareChannels[net].receiveMessageThread = "starting"
    /\ hardwareChannelsMutex = "free"
    /\ hardwareChannels' = [hardwareChannels EXCEPT ![net].receiveMessageThread = "running"]
    /\ UNCHANGED <<nmVars, acVars, lockedTransportCalls,
                   threadsStarted, updateThread, wakeupThread, stackNeedsUpdate,
                   hardwareChannelsMutex, driverValid, control, transmitCall, hwCrashed,
                   nextFrame, accepted, written, droppedOnStop, droppedOnUnassign, busFrames,
                   delivered, stoppedWithHandler, unclosedTransports, wakeup>>

\* The loop test of the receive thread: it goes on while the threads are
\* started and its network has a channel.
ReceiveLoopTest(net) == threadsStarted /\ Assigned(net)

\* The loop test fails and the thread leaves its function.
receive_thread_exit(net) ==
    /\ ~hwCrashed
    /\ hardwareChannels[net].receiveMessageThread = "running"
    /\ ~ReceiveLoopTest(net)
    /\ hardwareChannels' = [hardwareChannels EXCEPT ![net].receiveMessageThread = "exited"]
    /\ UNCHANGED <<nmVars, acVars, lockedTransportCalls,
                   threadsStarted, updateThread, wakeupThread, stackNeedsUpdate,
                   hardwareChannelsMutex, driverValid, control, transmitCall, hwCrashed,
                   nextFrame, accepted, written, droppedOnStop, droppedOnUnassign, busFrames,
                   delivered, stoppedWithHandler, unclosedTransports, wakeup>>

\* One turn of the receive loop in which read_frame() returns a frame; a turn
\* that times out, or sleeps on an invalid handler, changes nothing.
receive_can_frame_thread_function(net) ==
    /\ ~hwCrashed
    /\ hardwareChannels[net].receiveMessageThread = "running"
    /\ ReceiveLoopTest(net)
    /\ hardwareChannels[net].frameHandler /\ driverValid[net]
    /\ busFrames < MaxBusFrames
    /\ busFrames' = busFrames + 1
    /\ hardwareChannels' = [hardwareChannels EXCEPT
                               ![net].receivedMessages = Append(@, busFrames + 1)]
    /\ UNCHANGED <<nmVars, acVars, lockedTransportCalls,
                   threadsStarted, updateThread, wakeupThread, stackNeedsUpdate,
                   hardwareChannelsMutex, driverValid, control, transmitCall, hwCrashed,
                   nextFrame, accepted, written, droppedOnStop, droppedOnUnassign,
                   delivered, stoppedWithHandler, unclosedTransports, wakeup>>

ControlSteps ==
    \/ unassign_join
    \/ stop_threads_join_update
    \/ stop_threads_join_wakeup
    \/ \E net \in HWNetworks : stop_threads_close(net)
    \/ stop_threads_join_receive
    \/ stop_lock
    \/ \E net \in HWNetworks : stop_clear(net)
    \/ stop_return

UpdateThreadSteps ==
    \/ update_thread_start
    \/ update_thread_wake
    \/ update_thread_stage1_stage2
    \/ update_thread_stage3

WakeupThreadSteps == periodic_update_start \/ periodic_update_function

HWCalls ==
    \/ \E net \in HWNetworks, opens \in BOOLEAN : assign_can_channel_frame_handler(net, opens)
    \/ \E net \in HWNetworks : unassign_can_channel_frame_handler(net)
    \/ \E opens \in SUBSET HWNetworks : start(opens)
    \/ stop
    \/ \E t \in TransmitCallers, net \in HWNetworks : transmit_can_frame(t, net)

TransmitSteps == \E t \in TransmitCallers, crash \in BOOLEAN : transmit_push(t, crash)

ReceiveThreadSteps(net) == receive_thread_start(net) \/ receive_thread_exit(net)

\* The interface with no frame arriving from the bus.
HWNextQuietBus ==
    \/ HWCalls
    \/ ControlSteps
    \/ TransmitSteps
    \/ UpdateThreadSteps
    \/ WakeupThreadSteps
    \/ \E net \in HWNetworks : ReceiveThreadSteps(net)

HWNext ==
    \/ HWNextQuietBus
    \/ \E net \in HWNetworks : receive_can_frame_thread_function(net)

\* The interface, started and stopped, with one thread transmitting and the
\* stages of the update thread as single steps.
WakeupNext ==
    \/ \E net \in HWNetworks, opens \in BOOLEAN : assign_can_channel_frame_handler(net, opens)
    \/ \E opens \in SUBSET HWNetworks : start(opens)
    \/ stop
    \/ stop_threads_join_update
    \/ stop_threads_join_wakeup
    \/ \E net \in HWNetworks : stop_threads_close(net)
    \/ stop_threads_join_receive
    \/ stop_lock
    \/ \E net \in HWNetworks : stop_clear(net)
    \/ stop_return
    \/ \E net \in HWNetworks : transmit_can_frame(1, net)
    \/ transmit_push(1, FALSE)
    \/ update_thread_start
    \/ update_thread_wake
    \/ update_thread_stage1
    \/ update_thread_stage2
    \/ update_thread_stage3
    \/ WakeupThreadSteps
    \/ \E net \in HWNetworks : ReceiveThreadSteps(net)
    \/ \E net \in HWNetworks : receive_can_frame_thread_function(net)

\* stop() from its first statement to its return.
StopSteps ==
    \/ stop_threads_join_update
    \/ stop_threads_join_wakeup
    \/ \E net \in HWNetworks : stop_threads_close(net)
    \/ stop_threads_join_receive
    \/ stop_lock
    \/ \E net \in HWNetworks : stop_clear(net)
    \/ stop_return

\* The interface assigned, started and stopped, one thread transmitting, the
\* update thread writing the TX queues, and a quiet bus.
RetryNext ==
    \/ \E net \in HWNetworks, opens \in BOOLEAN : assign_can_channel_frame_handler(net, opens)
    \/ \E opens \in SUBSET HWNetworks : start(opens)
    \/ stop
    \/ StopSteps
    \/ \E net \in HWNetworks : transmit_can_frame(1, net)
    \/ transmit_push(1, FALSE)
    \/ UpdateThreadSteps
    \/ WakeupThreadSteps
    \/ \E net \in HWNetworks : ReceiveThreadSteps(net)

\* A stage 3 in which write_frame() takes at least one frame.
write_frame_accepts == update_thread_stage3 /\ written' # written

\* ------------------------------------------------------------ specifications
\* The state after construction: no control function, no channel, nothing
\* running.  buses and orders give the ways the transports may be joined and
\* the orders in which the channel table may be iterated.
Init(buses, orders) ==
    /\ controlFunctionTable = [n \in Networks |-> [a \in TableIndex |-> NoCF]]
    /\ inactiveControlFunctions = [n \in Networks |-> <<>>]
    /\ controlFunctions = [c \in CFIds |-> BlankCF]
    /\ partneredControlFunctionList = <<>>
    /\ partnerInitialized = [p \in PartnerIds |-> FALSE]
    /\ anyPartnerNeedsInitializing = FALSE
    /\ receiveMessageList = [n \in Networks |-> <<>>]
    /\ initialized = [n \in Networks |-> FALSE]
    /\ stateMachine = [c \in InternalIds |-> NoStateMachine]
    /\ nmCrashed = FALSE
    /\ framesReceived = 0
    /\ lastClaim = [n \in Networks |-> NoClaim]
    /\ updatedSinceFrame = [n \in Networks |-> FALSE]
    /\ busClaims = [n \in Networks |-> [a \in BusAddresses |-> ZeroName]]
    /\ namesSeen = [n \in Networks |-> {}]
    /\ partnerUpdated = [p \in PartnerIds |-> FALSE]
    /\ globalParameterGroupNumberCallbacks = <<>>
    /\ anyControlFunctionParameterGroupNumberCallbacks = <<>>
    /\ parameterGroupNumberCallbacks = [p \in PartnerIds |-> <<>>]
    /\ currentFrame = 0
    /\ lastSend = NoSend
    /\ constructedFrame = NoFrame
    /\ busloadMessageBitsHistory = <<>>
    /\ currentBusloadBitAccumulator = 0
    /\ busloadUpdateTimestamp_ms = 0
    /\ timestamp_ms = 0
    /\ eventLog = <<>>
    /\ protocolPGNCallbacks = <<>>
    /\ registryMutex = [protocolPGNCallbacksMutex |-> "free",
                        anyControlFunctionCallbacksMutex |-> "free"]
    /\ updateCall = NoUpdate
    /\ tableIndexesOutOfRange = {}
    /\ emptiedSlotsDereferenced = {}
    /\ threadsStarted = FALSE
    /\ hardwareChannels = [n \in HWNetworks |-> NoChannel]
    /\ updateThread = "none"
    /\ wakeupThread = "none"
    /\ stackNeedsUpdate = FALSE
    /\ hardwareChannelsMutex = "free"
    /\ driverValid = [n \in HWNetworks |-> FALSE]
    /\ control = Idle
    /\ transmitCall = [t \in TransmitCallers |-> NoCall]
    /\ hwCrashed = FALSE
    /\ nextFrame = 1
    /\ accepted = [n \in HWNetworks |-> <<>>]
    /\ written = [n \in HWNetworks |-> <<>>]
    /\ droppedOnStop = {}
    /\ droppedOnUnassign = {}
    /\ busFrames = 0
    /\ delivered = [n \in HWNetworks |-> <<>>]
    /\ stoppedWithHandler = [n \in HWNetworks |-> FALSE]
    /\ unclosedTransports = {}
    /\ lockedTransportCalls = {}
    /\ wakeup = NoTick
    /\ virtualBus = [n \in Networks |-> <<>>]
    /\ claimsWritten = [n \in Networks |-> {}]
    /\ sharedBus \in buses
    /\ channelOrder \in orders
    /\ updatePosition = 0
    /\ internalControlFunctionList = <<>>

\* hardwareChannels is an unordered map keyed by the network pointer: either
\* channel may come first when it is iterated.
ChannelOrders == {<<1, 2>>, <<2, 1>>}

SpecNM == Init({FALSE}, {<<1, 2>>}) /\ [][NMNext]_vars

SpecBothBuses == Init({FALSE}, {<<1, 2>>}) /\ [][BothBusesNext]_vars

\* The network manager on a bus where devices also announce that they cannot
\* claim an address.
SpecCannotClaim == Init({FALSE}, {<<1, 2>>}) /\ [][CannotClaimNext]_vars

\* Address claiming of the Internal CFs of two networks, each with a channel
\* on the running interface.
SpecClaim == Init(BOOLEAN, ChannelOrders) /\ [][ClaimNext]_vars

SpecHW == Init({FALSE}, {<<1, 2>>}) /\ [][HWNext]_vars

\* The update thread's wakeups on a running interface, stage by stage.
SpecWakeup == Init({FALSE}, {<<1, 2>>}) /\ [][WakeupNext]_vars

SpecHWQuietBus == Init({FALSE}, {<<1, 2>>}) /\ [][HWNextQuietBus]_vars

\* Every thread that can take a step is scheduled in the end; a call the
\* control thread is inside goes on when it can.  No new call is ever forced.
FairSpecHW ==
    /\ SpecHWQuietBus
    /\ WF_vars(ControlSteps)
    /\ WF_vars(TransmitSteps)
    /\ WF_vars(UpdateThreadSteps)
    /\ WF_vars(WakeupThreadSteps)
    /\ \A net \in HWNetworks : WF_vars(ReceiveThreadSteps(net))

SpecSend == Init({FALSE}, {<<1, 2>>}) /\ [][SendNext]_vars

SpecCommanded == Init({FALSE}, {<<1, 2>>}) /\ [][CommandedNext]_vars

SpecDispatch == Init({FALSE}, {<<1, 2>>}) /\ [][DispatchNext]_vars

\* The same bus with callbacks that are registered a second time.
SpecRegistration == Init({FALSE}, {<<1, 2>>}) /\ [][RegistrationNext]_vars

\* update() step by step, with callbacks that call back into their registry.
SpecReentrant == Init({FALSE}, {<<1, 2>>}) /\ [][ReentrantNext]_vars

\* construct_frame applied to in-range inputs.
SpecIdentifier == Init({FALSE}, {<<1, 2>>}) /\ [][IdentifierNext]_vars

\* The busload estimator over a few periods of bus traffic.
SpecBusload == Init({FALSE}, {<<1, 2>>}) /\ [][BusloadNext]_vars

SpecRetry == Init({FALSE}, {<<1, 2>>}) /\ [][RetryNext]_vars

\* Every thread is scheduled in the end, and a transport that stage 3 finds
\* open again and again with frames queued does not refuse them for ever.
FairSpecRetry ==
    /\ SpecRetry
    /\ WF_vars(StopSteps)
    /\ WF_vars(transmit_push(1, FALSE))
    /\ WF_vars(UpdateThreadSteps)
    /\ WF_vars(WakeupThreadSteps)
    /\ \A net \in HWNetworks : WF_vars(ReceiveThreadSteps(net))
    /\ SF_vars(write_frame_accepts)

\* The fair interface with frames arriving from the bus.
FairSpecHWBus ==
    /\ SpecHW
    /\ WF_vars(ControlSteps)
    /\ WF_vars(TransmitSteps)
    /\ WF_vars(UpdateThreadSteps)
    /\ WF_vars(WakeupThreadSteps)
    /\ \A net \in HWNetworks : WF_vars(ReceiveThreadSteps(net))

\* ------------------------------------------------------------------ claims
Quiescent(net) ==
    /\ ~nmCrashed
    /\ receiveMessageList[net] = <<>>
    /\ updatedSinceFrame[net]

\* C1: once a network has processed what it received, every non-empty slot a
\* of its address table holds a control function whose address is a.
C1_TableSlotMatchesAddress ==
    \A net \in Networks :
        Quiescent(net) =>
            \A a \in TableIndex :
                controlFunctionTable[net][a] # NoCF =>
                    controlFunctions[controlFunctionTable[net][a]].address = a

\* C2: after the address claim of NAME n at address a has been processed, slot
\* a holds the control function with NAME n and no other slot holds NAME n.
C2_ClaimOwnsSlot ==
    \A net \in Networks :
        (Quiescent(net) /\ lastClaim[net] # NoClaim) =>
            LET a == lastClaim[net].sa
                n == lastClaim[net].name
            IN  /\ controlFunctionTable[net][a] # NoCF
                /\ controlFunctions[controlFunctionTable[net][a]].NAME = n
                /\ \A b \in TableIndex \ {a} :
                     controlFunctionTable[net][b] # NoCF =>
                        controlFunctions[controlFunctionTable[net][b]].NAME # n

Registered(p) ==
    \E i \in 1 .. Len(partneredControlFunctionList) : partneredControlFunctionList[i] = p

\* C6: a registered partner whose filters match a device that has claimed an
\* address on its network has, after its network's update(), a valid address
\* and the NAME of that device.
C6_PartnerBindsToMatchingClaim ==
    \A p \in PartnerIds :
        LET net == PartnerNetwork[p]
            matching == {n \in namesSeen[net] : check_matches_name(p, n)}
        IN  \A n \in matching, a \in BusAddresses :
                ( /\ Registered(p)
                  /\ partnerUpdated[p]
                  /\ Quiescent(net)
                  /\ matching = {n}
                  /\ busClaims[net][a] = n )
                => ( /\ controlFunctions[p].address = a
                     /\ controlFunctions[p].NAME = n )

\* ---------------------------------------------------- hardware interface claims
Occurrences(seq, f) == Cardinality({i \in 1 .. Len(seq) : seq[i] = f})

\* C3: every frame transmit_can_frame() accepted is waiting in its channel's
\* TX queue, or was written to the channel's transport exactly once, or was
\* dropped with the TX queue by stop(): exactly one of the three, so no frame
\* is written twice and none disappears in any other way.
C3_WrittenOnceOrDroppedOnStop ==
    \A n \in HWNetworks :
        \A f \in SeqToSet(accepted[n]) :
            Occurrences(written[n], f)
                + Occurrences(hardwareChannels[n].messagesToBeTransmitted, f)
                + (IF f \in droppedOnStop THEN 1 ELSE 0) = 1

\* What stop() promises at its return.
StopPostcondition ==
    /\ updateThread = "none"
    /\ wakeupThread = "none"
    /\ \A n \in HWNetworks :
          /\ hardwareChannels[n].receiveMessageThread = "none"
          /\ Assigned(n) => ~driverValid[n]
          /\ hardwareChannels[n].messagesToBeTransmitted = <<>>
          /\ hardwareChannels[n].receivedMessages = <<>>

\* C8: in the state stop() returns in, the update thread, the tick thread
\* and every receive thread have been joined, every assigned transport is
\* closed and the TX and RX queue of every channel are empty.
C8_StopReturnsJoinedClosedEmpty == [][stop_return => StopPostcondition']_vars

\* C9 as stated: on the restarted interface every channel whose transport
\* stop() found assigned has its transport again (and, where open() worked,
\* a receive thread and transmit_can_frame() accepting) without a new assign.
C9_RestartRestoresChannels ==
    \A n \in HWNetworks :
        (stoppedWithHandler[n] /\ threadsStarted /\ control.pc = "idle") =>
            /\ hardwareChannels[n].frameHandler
            /\ driverValid[n] =>
                  (Joinable(hardwareChannels[n].receiveMessageThread) /\ TransmitAccepts(n))

\* C9 amended: stop() leaves the interface stopped, so that a following
\* start() passes its check, but it takes the transport away from every
\* channel: until assign is called again for the network the channel has no
\* transport and no receive thread, and transmit_can_frame() refuses it, also
\* on the restarted interface.
C9_RestartLeavesChannelsWithoutTransport ==
    /\ control.pc = "stop_clear" => ~threadsStarted
    /\ \A n \in HWNetworks :
          stoppedWithHandler[n] =>
              /\ Assigned(n)
              /\ ~hardwareChannels[n].frameHandler
              /\ hardwareChannels[n].receiveMessageThread = "none"
              /\ ~TransmitAccepts(n)

\* The interface was stopped with a transport on a channel, started again,
\* and its update thread runs.
C9_Restarted ==
    \E n \in HWNetworks :
        /\ stoppedWithHandler[n]
        /\ threadsStarted
        /\ control.pc = "idle"
        /\ updateThread = "stage3"

\* seq is sub with elements left out, order kept (both without repeats).
IsSubsequence(sub, seq) ==
    /\ \A i \in 1 .. Len(sub) : Occurrences(seq, sub[i]) = 1
    /\ \A i, j \in 1 .. Len(sub) :
          i < j => \A k, l \in 1 .. Len(seq) :
                      (seq[k] = sub[i] /\ seq[l] = sub[j]) => k < l

\* C10: the frames written to a channel's transport are in the order in
\* which transmit_can_frame() enqueued them: no frame is written before a
\* frame of the same channel that was accepted earlier.
C10_WrittenInEnqueueOrder ==
    \A n \in HWNetworks : IsSubsequence(written[n], accepted[n])

\* Two callers were inside transmit_can_frame() at once, a write failed and
\* was retried, and both frames are written.
C10_TwoWrittenAfterRetry ==
    \E n \in HWNetworks :
        /\ Len(written[n]) >= 2
        /\ written[n][1] > written[n][2]

\* C7: an unassign that has closed the transport and waits for the receive
\* thread comes back.
C7_UnassignReturns ==
    (control.pc = "unassign_join" /\ ~hwCrashed) ~> (control.pc = "idle" \/ hwCrashed)

\* ------------------------------------------------------ address claim claims
Created(c) == stateMachine[c].state # "None"
Settled(c) == stateMachine[c].state \in {"AddressClaimed", "UnableToClaim"}

\* The claim exchange has stabilized: every machine has reached a state it
\* leaves only on a new claim, and no frame is on a bus or in an RX queue.
Stabilized ==
    /\ ~nmCrashed
    /\ updatePosition = 0
    /\ \A c \in InternalIds : Created(c) => Settled(c)
    /\ \A n \in Networks : virtualBus[n] = <<>> /\ receiveMessageList[n] = <<>>

Contenders ==
    /\ sharedBus
    /\ \A c \in InternalIds : Created(c)
    /\ stateMachine[1].preferredAddress = stateMachine[2].preferredAddress

Winner == IF NameLess(controlFunctions[1].NAME, controlFunctions[2].NAME) THEN 1 ELSE 2
Loser == 3 - Winner

NoCompetingClaim(c) ==
    \A d \in InternalIds \ {c} :
        Created(d) => (stateMachine[d].preferredAddress # stateMachine[c].preferredAddress
                       \/ ~sharedBus)

ClaimWritten(c) ==
    AddressClaimFrame(controlFunctions[c].NAME, stateMachine[c].preferredAddress)
        \in claimsWritten[controlFunctions[c].network]

\* C5: an Internal CF without a competing claim for its preferred address
\* ends with that address valid and its address claim written to the transport.
C5_SoloClaimGetsPreferredAddress ==
    \A c \in InternalIds :
        (Stabilized /\ Created(c) /\ NoCompetingClaim(c)) =>
            /\ controlFunctions[c].address = stateMachine[c].preferredAddress
            /\ controlFunctions[c].address < NULL_CAN_ADDRESS
            /\ ClaimWritten(c)

C5_BothClaimedPreferred ==
    /\ Stabilized
    /\ \A c \in InternalIds :
        /\ Created(c) /\ NoCompetingClaim(c)
        /\ controlFunctions[c].address = stateMachine[c].preferredAddress
        /\ ClaimWritten(c)

\* ------------------------------------------------------------ receive claims
\* Frame f, read from the transport of net, waits in the channel's RX queue.
Pending(net, f) ==
    \E i \in 1 .. Len(hardwareChannels[net].receivedMessages) :
        hardwareChannels[net].receivedMessages[i] = f

\* Frames are numbered as read_frame() returns them: delivery in the order
\* read, each at most once, is a strictly increasing sequence of read frames.
DeliveredInOrder ==
    \A net \in HWNetworks :
        /\ \A i \in 1 .. Len(delivered[net]) : delivered[net][i] \in 1 .. busFrames
        /\ \A i, j \in 1 .. Len(delivered[net]) : i < j => delivered[net][i] < delivered[net][j]

\* A frame leaves the RX queue to the network, or with the queue stop() clears.
LeavesByDeliveryOrStop ==
    \A net \in HWNetworks, f \in 1 .. MaxBusFrames :
        (Pending(net, f) /\ ~Pending(net, f)') =>
            \/ \E i \in 1 .. Len(delivered'[net]) : delivered'[net][i] = f
            \/ stop_clear(net)

\* C11: within a channel the frames read_frame() returned are delivered to the
\* network in the order read, each at most once, and every frame read is in
\* the end delivered unless stop() discards it.
C11_ReadFramesDeliveredInOrderOnce ==
    /\ []DeliveredInOrder
    /\ [][LeavesByDeliveryOrStop]_vars
    /\ \A net \in HWNetworks, f \in 1 .. MaxBusFrames : Pending(net, f) ~> ~Pending(net, f)

\* ----------------------------------------------------------- dispatch claims
CallbackKinds == {"protocol", "anyControlFunction", "global", "partner"}

\* Entry j of the log belongs to frame f and is of the kind given.
Logged(j, kind, f) == eventLog[j].kind = kind /\ eventLog[j].frame = f

\* C12: for every received frame, the on_frame_received event is fired before
\* the frame is handed to the network, and so before any PGN callback
\* (protocol, any-CF, global or per-partner) is invoked for that frame.
C12_EventBeforeHandOverAndCallbacks ==
    \A j \in 1 .. Len(eventLog) :
        /\ eventLog[j].kind = "receive_can_message_frame_from_hardware"
            => \E i \in 1 .. (j - 1) : Logged(i, "on_frame_received", eventLog[j].frame)
        /\ eventLog[j].kind \in CallbackKinds
            => \E i, k \in 1 .. (j - 1) :
                /\ i < k
                /\ Logged(i, "on_frame_received", eventLog[j].frame)
                /\ Logged(k, "receive_can_message_frame_from_hardware", eventLog[j].frame)

\* A protocol callback has been invoked for one received frame, an any-CF and
\* a global callback for another.
C12_CallbacksInvokedForTwoFrames ==
    /\ \E j \in 1 .. Len(eventLog) : Logged(j, "protocol", 1)
    /\ \E j, k \in 1 .. Len(eventLog) :
        Logged(j, "anyControlFunction", 2) /\ Logged(k, "global", 2)

\* ------------------------------------------------------------ partner claims
\* The External CFs of net's registry whose NAME passes the filters of p.
MatchingInactive(p, net) ==
    {i \in 1 .. Len(inactiveControlFunctions[net]) :
        /\ controlFunctions[inactiveControlFunctions[net][i]].type = "External"
        /\ check_matches_name(p, controlFunctions[inactiveControlFunctions[net][i]].NAME)}

MatchingActive(p, net) ==
    {a \in TableIndex :
        /\ controlFunctionTable[net][a] # NoCF
        /\ controlFunctions[controlFunctionTable[net][a]].type = "External"
        /\ check_matches_name(p, controlFunctions[controlFunctionTable[net][a]].NAME)}

\* The first update() of p's network since p was created, with nothing queued.
FirstUpdateOfUnboundPartner(p) ==
    /\ controlFunctions[p].type = "Partnered"
    /\ controlFunctions[p].NAME = ZeroName
    /\ receiveMessageList[controlFunctions[p].network] = <<>>
    /\ ~partnerUpdated[p]
    /\ partnerUpdated'[p]
    /\ ~nmCrashed'

ReplacedInPlace(p) ==
    LET net == controlFunctions[p].network
        inactive == MatchingInactive(p, net)
        active == MatchingActive(p, net)
        external == IF inactive # {} THEN inactiveControlFunctions[net][Min(inactive)]
                    ELSE controlFunctionTable[net][Min(active)]
    IN  (inactive \cup active) # {} =>
            /\ controlFunctions'[p].NAME = controlFunctions[external].NAME
            /\ controlFunctions'[p].address = controlFunctions[external].address
            /\ IF inactive # {}
               THEN /\ Min(inactive) <= Len(inactiveControlFunctions'[net])
                    /\ inactiveControlFunctions'[net][Min(inactive)] = p
               ELSE controlFunctionTable'[net][Min(active)] = p
            /\ \A a \in TableIndex : controlFunctionTable'[net][a] # external
            /\ \A i \in 1 .. Len(inactiveControlFunctions'[net]) :
                    inactiveControlFunctions'[net][i] # external

\* C13: when update() runs with an unbound partner, the first External CF
\* (inactive list before the table) whose NAME passes the partner's filters is
\* replaced in place: the partner takes its NAME and address and its position
\* in the registry, and the External CF is no longer reachable through it.
C13_PartnerReplacesExternalInPlace ==
    [][\A p \in PartnerIds : FirstUpdateOfUnboundPartner(p) => ReplacedInPlace(p)]_vars

\* Partner p has taken the NAME and address of a device.
Bound(p) ==
    /\ controlFunctions[p].type = "Partnered"
    /\ controlFunctions[p].NAME # ZeroName
    /\ controlFunctions[p].address # NULL_CAN_ADDRESS

\* This step receives the address claim of another NAME that passes the
\* filters of p, for an address that is not p's.
LaterMatchingClaim(p) ==
    LET net == controlFunctions[p].network
    IN  /\ framesReceived' = framesReceived + 1
        /\ lastClaim'[net].name # controlFunctions[p].NAME
        /\ lastClaim'[net].sa # controlFunctions[p].address
        /\ check_matches_name(p, lastClaim'[net].name)
        /\ ~nmCrashed'

\* C14: a partner matches exactly once: after it has taken the NAME and
\* address of one device, a later address claim from a different NAME that
\* also passes its filters changes neither its NAME nor its address and does
\* not place it in a second table slot.
C14_BoundPartnerIsNotRebound ==
    [][\A p \in PartnerIds : (Bound(p) /\ LaterMatchingClaim(p)) =>
            /\ controlFunctions'[p].NAME = controlFunctions[p].NAME
            /\ controlFunctions'[p].address = controlFunctions[p].address
            /\ Cardinality({a \in TableIndex :
                    controlFunctionTable'[controlFunctions[p].network][a] = p}) <= 1]_vars

\* ------------------------------------------------------------ transmit claims
\* The PDU format byte of the PGN is 0xF0 or more: a broadcast-only PGN.
BroadcastForm(pgn) == ((pgn \div 256) % 256) >= 240

\* The last call is one of the four the network must refuse.
MustBeRefused ==
    \/ lastSend.source = NoCF
    \/ ~get_address_valid(lastSend.sourceAddress) /\ lastSend.parameterGroupNumber # AddressClaim
    \/ lastSend.dataLength > 1785
    \/ /\ lastSend.dataLength <= 8
       /\ BroadcastForm(lastSend.parameterGroupNumber)
       /\ lastSend.destination # NoCF

\* C15: send_can_message returns false and enqueues no frame when the source
\* is null, when the source has no valid address and the PGN is not address
\* claim, when the length exceeds 1785 bytes, or when a message of at most 8
\* bytes with a broadcast-form PGN goes to a specific destination.
C15_InvalidSendIsRefused ==
    (lastSend.called /\ MustBeRefused) => (~lastSend.retVal /\ lastSend.enqueued = <<>>)

\* A claimed Internal CF has sent a broadcast-form PGN of 8 bytes to a bound
\* partner and was refused.
C15_BroadcastFormToPartnerRefused ==
    /\ lastSend.called
    /\ lastSend.source # NoCF
    /\ get_address_valid(lastSend.sourceAddress)
    /\ lastSend.destination # NoCF
    /\ get_address_valid(controlFunctions[lastSend.destination].address)
    /\ lastSend.dataLength <= 8
    /\ BroadcastForm(lastSend.parameterGroupNumber)
    /\ ~lastSend.retVal

\* C16: for every send_can_message call that supplies a completion callback
\* and is not taken over by a transport protocol, the callback is invoked
\* exactly once, with success = true when the frame was enqueued and
\* success = false when the send was rejected or could not be enqueued.
C16_CompletionCallbackInvokedOnce ==
    (lastSend.called /\ lastSend.callback /\ ~lastSend.viaProtocol) =>
        lastSend.transmitComplete = <<lastSend.enqueued # <<>>>>

\* ------------------------------------------------------- callback claims
\* The entries of the log for callbacks of one kind.
CallbackEntries(kind) == {j \in 1 .. Len(eventLog) : eventLog[j].kind = kind}

\* C17: a per-partner PGN callback is invoked for a received message only if
\* the message's destination is one of our Internal CFs, the PGN matches, and
\* the partner that owns the callback is the control function bound to the
\* message's source address.
C17_PartnerCallbackOnlyForItsSource ==
    \A j \in CallbackEntries("partner") :
        /\ eventLog[j].destination \in InternalIds
        /\ get_parameter_group_number(eventLog[j].identifier) =
                parameterGroupNumberCallbacks[eventLog[j].owner][eventLog[j].index]
        /\ eventLog[j].source = eventLog[j].owner

\* This step is update() of net.
UpdateOf(net) ==
    /\ updatePosition' # updatePosition
    /\ channelOrder[updatePosition + 1] = net
    /\ ~nmCrashed'

\* The address is that of one of our Internal CFs.
OurAddress(address) ==
    \E c \in InternalIds :
        controlFunctions[c].type = "Internal" /\ controlFunctions[c].address = address

\* How often global callback k was invoked for frame f, after the step.
GlobalInvocations(f, k) ==
    Cardinality({j \in 1 .. Len(eventLog') :
        /\ eventLog'[j].kind = "global"
        /\ eventLog'[j].frame = f
        /\ eventLog'[j].index = k})

\* C18: every global PGN callback registered for the PGN of a received
\* message is invoked, once, if and only if the message's destination is the
\* global address 0xFF and its source is not one of our Internal CFs, whether
\* or not the source address has an entry in the address table.
C18_GlobalCallbacksIffGlobalDestination ==
    [][\A net \in Networks : UpdateOf(net) =>
        \A i \in 1 .. Len(receiveMessageList[net]) :
            LET message == receiveMessageList[net][i]
                forAll == /\ get_destination_address(message.identifier) = BROADCAST_CAN_ADDRESS
                          /\ ~OurAddress(get_source_address(message.identifier))
            IN  \A k \in 1 .. Len(globalParameterGroupNumberCallbacks) :
                    globalParameterGroupNumberCallbacks[k] =
                            get_parameter_group_number(message.identifier)
                    => GlobalInvocations(message.frame, k) = (IF forAll THEN 1 ELSE 0)]_vars

\* C19: an any-control-function PGN callback is invoked for a received
\* message only if the PGN matches and the message's destination is the
\* global address 0xFF or the address of one of our Internal CFs; a message
\* to a specific address that is not ours, also one with no entry in the
\* address table, does not trigger it.
C19_AnyControlFunctionCallbackOnlyForUs ==
    \A j \in CallbackEntries("anyControlFunction") :
        /\ get_parameter_group_number(eventLog[j].identifier) =
                anyControlFunctionParameterGroupNumberCallbacks[eventLog[j].index]
        /\ \/ get_destination_address(eventLog[j].identifier) = BROADCAST_CAN_ADDRESS
           \/ eventLog[j].destination \in InternalIds

\* ------------------------------------------------- commanded address claims
\* This step hands a commanded address message to the network.
CommandedMessageReceived ==
    /\ Len(eventLog') = Len(eventLog) + 1
    /\ eventLog'[Len(eventLog')].kind = "protocol_message_callback"
    /\ ~nmCrashed'

\* Internal CF c is on the network of the message and has the target NAME.
Commanded(c, e) ==
    /\ controlFunctions[c].type = "Internal"
    /\ controlFunctions[c].network = e.index
    /\ controlFunctions[c].NAME = SubSeq(e.data, 1, 8)

\* C20: every received message with PGN 0xFED8 and a 9-byte payload makes
\* each Internal CF of this network whose full NAME equals the target NAME
\* enter the commanded-address flow with the new address; Internal CFs with
\* another NAME or on another network are unaffected.
C20_CommandedAddressAdopted ==
    [][CommandedMessageReceived =>
        LET e == eventLog'[Len(eventLog')]
        IN  \A c \in InternalIds :
                IF Commanded(c, e)
                THEN /\ stateMachine'[c].state = "Claiming"
                     /\ stateMachine'[c].targetAddress = e.data[9]
                ELSE /\ stateMachine'[c] = stateMachine[c]
                     /\ controlFunctions'[c] = controlFunctions[c]]_vars

\* ---------------------------------------------------- identifier codec claims
\* C21: the identifier construct_frame encodes for an in-range priority,
\* source, and PGN with its destination decodes through the CANIdentifier
\* getters to the same priority, PGN, source and destination; priority 3,
\* PGN 0xFEF1, source 0x1C to the global address encodes to 0x0CFEF11C.
C21_IdentifierRoundTrip ==
    constructedFrame.built =>
        /\ constructedFrame.identifier # -1
        /\ constructedFrame.decoded =
               [priority |-> constructedFrame.priority,
                parameterGroupNumber |-> constructedFrame.parameterGroupNumber,
                sourceAddress |-> constructedFrame.sourceAddress,
                destAddress |-> constructedFrame.destAddress]
        /\ (/\ constructedFrame.priority = 3
            /\ constructedFrame.parameterGroupNumber = 65265
            /\ constructedFrame.sourceAddress = 28
            /\ constructedFrame.destAddress = BROADCAST_CAN_ADDRESS)
               => constructedFrame.identifier = 218034460

\* The documented example is encoded and read back.
C21_ExampleEncoded ==
    /\ constructedFrame.built
    /\ constructedFrame.identifier = 218034460
    /\ constructedFrame.decoded.parameterGroupNumber = 65265

\* ------------------------------------------------------------ busload claims
\* C22: after any sequence of received frames, transmitted frames and
\* update() calls the busload percentage get_estimated_busload() returns is
\* at most 100.
C22_BusloadAtMost100 == get_estimated_busload <= 100

\* C22, second half: the percentage does not decrease when further bits are
\* accumulated in the current window.
C22_BusloadDoesNotDecreaseWithBits ==
    [][currentBusloadBitAccumulator' > currentBusloadBitAccumulator
           => get_estimated_busload' >= get_estimated_busload]_vars

\* -------------------------------------------------------- registration claims
\* How often a callback of the kind given was invoked for frame f.
InvocationsFor(kind, f) ==
    Cardinality({j \in 1 .. Len(eventLog) : Logged(j, kind, f)})

NoDuplicates(registry) ==
    \A i, j \in 1 .. Len(registry) : registry[i] = registry[j] => i = j

\* C23: registering a PGN callback that is already in its registry (same PGN,
\* callback and context) is refused without side effect, so the registry
\* holds it once and it is invoked once per matching message.
C23_DuplicateRegistrationRefused ==
    /\ NoDuplicates(globalParameterGroupNumberCallbacks)
    /\ NoDuplicates(anyControlFunctionParameterGroupNumberCallbacks)
    /\ \A f \in 1 .. MaxBusTraffic :
          /\ InvocationsFor("global", f) <= 1
          /\ InvocationsFor("anyControlFunction", f) <= 1

\* ----------------------------------------------------- receive thread claims
\* The interface is running and no lifecycle call is under way.
RunningAndIdle == threadsStarted /\ ~hwCrashed /\ control.pc = "idle"

\* The channel's receive thread exists and polls, or is about to.
Polled(net) == hardwareChannels[net].receiveMessageThread \in {"starting", "running"}

\* C24: every channel that is assigned a transport on a running interface,
\* also one whose transport was invalid when start() or assign opened it, has
\* a receive thread that polls the transport; no such channel is left
\* without one.
C24_AssignedChannelHasReceiveThread ==
    \A net \in HWNetworks :
        (RunningAndIdle /\ Assigned(net) /\ hardwareChannels[net].frameHandler)
            => Polled(net)

\* C25: every transport the interface has opened is closed by the interface
\* before it drops its reference to it, on every path: stop(), unassign while
\* running, and assign replacing the transport of an assigned channel while
\* running.
C25_OpenedTransportClosedBeforeDropped == unclosedTransports = {}

\* The update, tick and receive threads exist exactly while the interface is
\* running, looked at between lifecycle calls.
ThreadsExistIffRunning ==
    (control.pc = "idle" /\ ~hwCrashed) =>
        /\ threadsStarted <=> updateThread # "none"
        /\ threadsStarted <=> wakeupThread # "none"
        /\ \A net \in HWNetworks :
              /\ hardwareChannels[net].receiveMessageThread # "none" => threadsStarted
              /\ (threadsStarted /\ Assigned(net) /\ hardwareChannels[net].frameHandler)
                    => hardwareChannels[net].receiveMessageThread # "none"

\* This step creates a receive thread for a channel whose receive thread was
\* not joined: the old std::thread is destroyed while joinable.
ReceiveThreadReplacedUnjoined(net) ==
    /\ ~hwCrashed /\ hwCrashed'
    /\ transmitCall' = transmitCall
    /\ Joinable(hardwareChannels[net].receiveMessageThread)
    /\ hardwareChannels'[net].receiveMessageThread = "starting"

\* C26: after any sequence of assign, unassign, start and stop calls a channel
\* has at most one live receive thread (a second assign while running leaves
\* neither two threads nor an un-joined one), and the update, tick and
\* receive threads exist if and only if is_running() is true.
C26_OneReceiveThreadAndThreadsIffRunning ==
    /\ []ThreadsExistIffRunning
    /\ [][\A net \in HWNetworks : ~ReceiveThreadReplacedUnjoined(net)]_vars

\* ---------------------------------------------------------- destruction claims
\* This step destroys partner p: it leaves the partner list and
\* on_control_function_destroyed runs for it and returns.
Destroyed(p) ==
    /\ \E i \in 1 .. Len(partneredControlFunctionList) : partneredControlFunctionList[i] = p
    /\ \A i \in 1 .. Len(partneredControlFunctionList') : partneredControlFunctionList'[i] # p
    /\ ~nmCrashed'

\* C27: after on_control_function_destroyed has run for a control function,
\* no table slot references it and it is not in the inactive list of its
\* network; if the network was initialized, every slot it occupied holds a
\* new External CF with the same NAME and the slot's address.
C27_DestroyedIsUnreferenced ==
    [][\A p \in PartnerIds : Destroyed(p) =>
          LET net == controlFunctions[p].network
          IN  /\ \A a \in TableIndex : controlFunctionTable'[net][a] # p
              /\ \A i \in 1 .. Len(inactiveControlFunctions'[net]) :
                    inactiveControlFunctions'[net][i] # p
              /\ \A a \in TableIndex :
                    (initialized[net] /\ controlFunctionTable[net][a] = p) =>
                        LET e == controlFunctionTable'[net][a]
                        IN  /\ e # NoCF
                            /\ controlFunctions'[e].type = "External"
                            /\ controlFunctions'[e].NAME = controlFunctions[p].NAME
                            /\ controlFunctions'[e].address = a]_vars

\* ------------------------------------------------------------- wakeup claims
\* The update thread goes through the stages in their order.
StagesInOrder ==
    /\ updateThread = "stage1" => updateThread' \in {"stage1", "stage2"}
    /\ updateThread = "stage2" => updateThread' \in {"stage2", "stage3"}
    /\ updateThread = "stage3" => updateThread' \in {"stage3", "waiting"}
    /\ updateThread' = "stage2" => updateThread \in {"stage1", "stage2"}
    /\ updateThread' = "stage3" => updateThread \in {"stage2", "stage3"}

\* Frames reach the network in stage 1 only, which empties every receive
\* queue; frames are written in stage 3 only.
DrainsInTheirStage ==
    /\ delivered' # delivered =>
          /\ updateThread = "stage1" /\ updateThread' = "stage2"
          /\ \A net \in HWNetworks : hardwareChannels'[net].receivedMessages = <<>>
    /\ written' # written => (updateThread = "stage3" /\ updateThread' = "waiting")

\* Stage 2 with the flag set clears it, fires the tick event once and updates
\* every assigned network once; with the flag clear it does nothing.
TickInStage2 ==
    /\ (stackNeedsUpdate /\ ~stackNeedsUpdate') =>
          (updateThread = "stage2" /\ updateThread' = "stage3")
    /\ (updateThread = "stage2" /\ updateThread' = "stage3") =>
          IF stackNeedsUpdate
          THEN /\ ~stackNeedsUpdate'
               /\ wakeup'.on_periodic_tick = 1
               /\ \A net \in HWNetworks :
                     wakeup'.periodic_update_from_hardware[net] =
                         IF Assigned(net) THEN 1 ELSE 0
          ELSE /\ ~stackNeedsUpdate'
               /\ wakeup' = NoTick

HandsOverClaim(net, a, name) ==
    /\ virtualBus[net] # <<>>
    /\ virtualBus'[net] = Tail(virtualBus[net])
    /\ ~nmCrashed'
    /\ LET rxFrame == Head(virtualBus[net])
       IN  /\ get_parameter_group_number(rxFrame.identifier) = AddressClaim
           /\ rxFrame.dataLength = CAN_DATA_LENGTH
           /\ get_source_address(rxFrame.identifier) = a
           /\ rxFrame.data = name

\* Internal CF c of network net has address a and sits in slot a.
OwnsSlot(c, net, a) ==
    /\ controlFunctions[c].type = "Internal"
    /\ controlFunctions[c].network = net
    /\ controlFunctions[c].address = a
    /\ controlFunctionTable[net][a] = c

\* C29: when an address claim for address a arrives while an Internal CF owns
\* slot a, the Internal CF loses the address only if the incoming NAME is
\* lower than its own; when the incoming NAME is higher it keeps address a
\* and stays in slot a.
C29_HigherNameDoesNotEvictInternal ==
    [][\A net \in Networks, c \in InternalIds, a \in TableIndex :
          (/\ OwnsSlot(c, net, a)
           /\ \E other \in InternalIds \ {c} :
                 /\ HandsOverClaim(net, a, controlFunctions[other].NAME)
                 /\ NameLess(controlFunctions[c].NAME, controlFunctions[other].NAME))
              => /\ controlFunctions'[c].address = a
                 /\ controlFunctionTable'[net][a] = c]_vars

\* ------------------------------------------------------- channel table claims
\* A thread inside transmit_can_frame() reads the channel table and uses the
\* entry it found only with the channel-table mutex not held by the thread
\* making a lifecycle call.
TransmitUnderMutex ==
    \A t \in TransmitCallers :
        transmitCall[t].pc = "push" => hardwareChannelsMutex # "control"

\* C30: every read and every mutation of the channel table happens while the
\* channel-table mutex is held, so no thread uses a channel entry while
\* another thread erases or replaces it.
C30_ChannelTableOnlyUnderMutex ==
    /\ TransmitUnderMutex
    /\ \A t \in TransmitCallers : ~transmitCall[t].dangling

\* ---------------------------------------------------------------- C31
\* C31: the channel-table mutex is never held while a transport operation
\* (open, close, read_frame, write_frame) is in progress: no operation of a
\* transport has ever been called by a thread holding hardwareChannelsMutex.
C31_NoTransportCallUnderChannelMutex == lockedTransportCalls = {}

\* ---------------------------------------------------------------- C32
\* C32: a PGN callback is invoked without the mutex of the registry that
\* holds it being held, so a callback that adds or removes a callback in the
\* same registry completes: the thread inside update() is never inside a
\* callback with the registry's mutex held, and never waits for a mutex it
\* holds itself.
C32_CallbackInvokedWithoutRegistryMutex ==
    /\ updateCall.pc = "callback" => registryMutex[MutexOf(updateCall.registry)] = "free"
    /\ updateCall.pc # "blocked"

\* ---------------------------------------------------------------- C33
\* The step in which caller t's transmit_can_frame() appends and returns true.
TransmitReturnsTrue(t) ==
    /\ transmitCall[t].pc = "push"
    /\ transmitCall'[t].pc = "idle"
    /\ ~hwCrashed'

\* C33: transmit returns false and leaves every TX queue unchanged when the
\* interface is not running, the network has no channel, or the channel's
\* transport is null or not valid; otherwise it appends the frame to the tail
\* of the channel's TX queue and returns true.  So a call that returns true
\* does so on a running interface, for an assigned channel with a valid
\* transport, and its frame is then the last of that channel's TX queue.
C33_TransmitTrueOnlyWhenAcceptedAndQueued ==
    [][\A t \in TransmitCallers :
          TransmitReturnsTrue(t) =>
              LET net == transmitCall[t].network
              IN  /\ TransmitAccepts(net)
                  /\ hardwareChannels'[net].messagesToBeTransmitted =
                         Append(hardwareChannels[net].messagesToBeTransmitted,
                                transmitCall[t].frame)]_vars

\* ---------------------------------------------------------------- C34
InTransmitQueue(net, f) == f \in SeqToSet(hardwareChannels[net].messagesToBeTransmitted)

\* Frames are written by stage 3 only, and stage 3 takes them from the head of
\* the queue: what it has written followed by what it leaves queued is what
\* was written followed by what was queued, so a frame whose write failed, and
\* every frame behind it, stays where it was.
WrittenFromHead ==
    \A net \in HWNetworks :
        /\ written'[net] # written[net] =>
              (updateThread = "stage3" /\ updateThread' = "waiting")
        /\ (updateThread = "stage3" /\ updateThread' = "waiting") =>
              /\ Len(written'[net]) >= Len(written[net])
              /\ written'[net] \o hardwareChannels'[net].messagesToBeTransmitted =
                     written[net] \o hardwareChannels[net].messagesToBeTransmitted

\* C34: a frame whose write_frame fails stays at the head of its channel's TX
\* queue and is tried again on later wakeups; no frame is written (and its
\* on_frame_transmitted event fired) twice; and every frame in a TX queue is
\* eventually written unless the interface is stopped, the transport is not
\* open, or the process has been terminated.
C34_FailedWriteRetriedUntilWritten ==
    /\ [](\A net \in HWNetworks, f \in 1 .. MaxTxFrames : Occurrences(written[net], f) <= 1)
    /\ [][WrittenFromHead]_vars
    /\ \A net \in HWNetworks, f \in 1 .. MaxTxFrames :
          InTransmitQueue(net, f) ~>
              (\/ f \in SeqToSet(written[net])
               \/ ~threadsStarted
               \/ ~CanWrite(net)
               \/ hwCrashed)

\* Stage 3 of a running interface has written a frame and had the write of
\* the next one fail: that frame is still queued, on an open transport.
C34_FailedWriteLeftQueued ==
    /\ threadsStarted
    /\ updateThread = "waiting"
    /\ wakeup.write_frame_failed
    /\ \E net \in HWNetworks :
          /\ CanWrite(net)
          /\ written[net] # <<>>
          /\ hardwareChannels[net].messagesToBeTransmitted # <<>>

\* C35: the address table is only ever indexed with 0 .. 253: an address claim
\* received from source 0xFE or 0xFF, and an Internal CF whose address became
\* 0xFE, lead to no access of the table at index 254 or 255.
C35_TableIndexedInRange == tableIndexesOutOfRange = {}

\* C36: on every network each control function is referenced at most once by
\* the address table and the inactive list together: none is in a table slot
\* and in the inactive list at once, none is in two slots, and the inactive
\* list holds none twice.
TableSlotsOf(net, c) == {a \in TableIndex : controlFunctionTable[net][a] = c}
InactivePositionsOf(net, c) ==
    {i \in 1 .. Len(inactiveControlFunctions[net]) : inactiveControlFunctions[net][i] = c}

C36_ReferencedAtMostOnce ==
    \A net \in Networks, c \in CFIds :
        Cardinality(TableSlotsOf(net, c)) + Cardinality(InactivePositionsOf(net, c)) <= 1

\* C37: a Partnered CF is bound only by its own network, and a network's
\* table and inactive list hold no Partnered or Internal CF of another
\* network: the NAME a partner carries was claimed on the partner's network,
\* and every Partnered or Internal CF a network references is associated with
\* that network.
HeldBy(net) ==
    {controlFunctionTable[net][a] : a \in TableIndex} \cup SeqToSet(inactiveControlFunctions[net])

C37_BoundOnlyByOwnNetwork ==
    /\ \A p \in PartnerIds :
            controlFunctions[p].type = "Partnered" =>
                controlFunctions[p].NAME \in {ZeroName} \cup namesSeen[controlFunctions[p].network]
    /\ \A net \in Networks : \A c \in (PartnerIds \cup InternalIds) \cap HeldBy(net) :
            controlFunctions[c].network = net

\* C38: no frame the hardware interface hands to a network is discarded: the
\* step that delivers it leaves it in the network's receive queue, from which
\* process_rx_messages of a later update() dispatches it, also when the
\* network has not run its first update() yet.
QueuedFrames(net) ==
    {receiveMessageList[net][i].frame : i \in 1 .. Len(receiveMessageList[net])}

DeliveredFrameQueued ==
    (currentFrame' # currentFrame) => \E net \in Networks : currentFrame' \in QueuedFrames(net)'

C38_DeliveredFrameDispatched == [][DeliveredFrameQueued]_vars

\* C39: when an address claim with a NAME the network does not know arrives
\* from the address of slot a, the External or Partnered CF that held slot a
\* has the null address afterwards and the network still holds it, in the
\* inactive list or in the table until the next update(): it is not dropped.
DisplacedByNewName(net, a) ==
    LET displaced == controlFunctionTable[net][a]
    IN  /\ framesReceived' = framesReceived + 1
        /\ ~nmCrashed'
        /\ lastClaim'[net].sa = a
        /\ displaced # NoCF
        /\ controlFunctions[displaced].type \in {"External", "Partnered"}
        /\ controlFunctions[displaced].address = a
        /\ \A c \in HeldBy(net) \ {NoCF} : controlFunctions[c].NAME # lastClaim'[net].name

C39_DisplacedControlFunctionKept ==
    [][\A net \in BusNetworks, a \in TableIndex :
          DisplacedByNewName(net, a) =>
              /\ controlFunctions'[controlFunctionTable[net][a]].address = NULL_CAN_ADDRESS
              /\ controlFunctionTable[net][a] \in HeldBy(net)']_vars

\* C40: update_address_table never dereferences a table slot after emptying
\* it: an eviction empties the slot and goes on without reading through it.
C40_EmptiedSlotNotDereferenced == emptiedSlotsDereferenced = {}

====
